---- MODULE Spec2Model ----
(***************************************************************************)
(* Block chain manager of the node (src/src/chain.cpp, src/src/chain.hpp). *)
(*                                                                         *)
(* The state is the Chain object's members.  Every public operation        *)
(* (addPendingBlock, markBlocksForNode, process) is one action; the        *)
(* private helpers it calls (processBlock, revert, checkBranches, ...)     *)
(* are operators from a chain record to a chain record, composed inside    *)
(* the action exactly as the handler composes the calls.                   *)
(*                                                                         *)
(* Collaborators whose source is not part of src/ (BlockStats, the block   *)
(* files, the transaction output pool, Block::process, Hash work           *)
(* arithmetic) are modelled from the specification text.                   *)
(***************************************************************************)
EXTENDS Integers, Sequences, FiniteSets, TLC

(***************************************************************************)
(* Bounds of the model.                                                    *)
(***************************************************************************)
\* node identifiers 1..NumNodes can request blocks (0 is "no node")
NumNodes == 1
\* disk / commit failures injected per behaviour (specification SpecFaults)
MaxFaults == 1
\* serialised size of the transactions of a full block of the universe
BodySize == 200
\* target bits of the universe's block that does not match the chain's
\* target: a compact target of half the maximum target (0x1c7fff80)
HardTargetBits == 478150528
\* blocks without proof of work a peer sends (specification SpecBlackList):
\* enough to fill the black list and push out its oldest entry
MaxInvalid == 1026
\* blocks of the long chain and headers of its heavy branch (specification
\* SpecLong): a branch of k headers of double work forked at height 1 equals
\* the work of a chain of 2 * k + 2 blocks
MaxLong == 11
MaxHard == 5
\* branches whose tip is further than this below the tip are dropped; the
\* 144 blocks of chain.cpp:443 are scaled to 4 so that the chains that reach
\* the rule stay short (the comparisons are the code's)
BranchDropDepth == 4
\* the clock advances by TickSeconds up to MaxTime (specification
\* SpecRequests)
TickSeconds == 6
MaxTime == 12
\* getBlocksNeeded is asked for 0..MaxCount hashes
MaxCount == 2
\* the connection thread stops submitting blocks once this many branches or
\* black-listed hashes exist (specification SpecThreads)
MaxBranches == 2
MaxBlackListed == 2
\* unsigned counters wrap; the 32-bit width is scaled to 16 bits so that every
\* value stays inside the model checker's integers
UIntModulus == 65536

(***************************************************************************)
(* Program constants.                                                      *)
(***************************************************************************)
\* Chain::Chain(): mMaxTargetBits = 0x1d00ffff
MaxTargetBits == 486604799
\* the black list keeps this many hashes before the oldest is erased
BlackListMax == 1024
\* serialised size of a block header
HeaderSize == 80
\* blocks per block file
\* seconds after which blocksNeeded() reports a requested block as needed
BlockRequestTimeout == 10
MAX_BLOCKS == 100
\* original difficulty retarget period
RETARGET_PERIOD == 2016

(***************************************************************************)
(* The universe of headers.  A hash determines its header (the hash is the *)
(* digest of the header), and the header commits to the body through the   *)
(* merkle root, so previous hash, target bits and the validity of the body *)
(* are functions of the hash.                                              *)
(*                                                                         *)
(*        G - A1 - A2          H2 : target bits differ from the chain's    *)
(*         \    \                  (half the target: twice the work)       *)
(*          \    H2            B1 : body fails Block::process              *)
(*           B1 - B2                                                       *)
(***************************************************************************)
EmptyHash == ""
ZeroHash == "0"
Genesis == "G"
Hashes == {"A1", "A2", "H2", "B1", "B2"}

\* the k-th block without proof of work sent by a misbehaving peer
NoWorkHash(k) == "N" \o ToString(k)

\* a long chain G - L1 - L2 - ... and a branch X1 - X2 - ... forked at L1
\* whose headers carry the hard target
LongBlocks == [k \in 1..MaxLong |-> "L" \o ToString(k)]
HardBlocks == [k \in 1..MaxHard |-> "X" \o ToString(k)]

\* blocks after H2 at the maximum target whose times are 1201, 1200 and 600
\* seconds after the time of H2 and 600 seconds before it, and a block after
\* A2 at the hard target
MoreHashes == {"T3", "E3", "S3", "P3", "H3"}

PreviousHash(h) ==
    CASE h = "G"  -> ZeroHash
      [] h \in {"T3", "E3", "S3", "P3"} -> "H2"
      [] h = "H3" -> "A2"
      [] h = "A1" -> "G"
      [] h = "A2" -> "A1"
      [] h = "H2" -> "A1"
      [] h = "B1" -> "G"
      [] h = "B2" -> "B1"
      [] \E k \in 1..MaxLong : LongBlocks[k] = h ->
            LET k == CHOOSE k \in 1..MaxLong : LongBlocks[k] = h
            IN  IF k = 1 THEN Genesis ELSE LongBlocks[k - 1]
      [] \E k \in 1..MaxHard : HardBlocks[k] = h ->
            LET k == CHOOSE k \in 1..MaxHard : HardBlocks[k] = h
            IN  IF k = 1 THEN LongBlocks[1] ELSE HardBlocks[k - 1]
      [] OTHER    -> EmptyHash

TargetBitsOf(h) ==
    IF h \in {"H2", "H3"} \/ \E k \in 1..MaxHard : HardBlocks[k] = h
    THEN HardTargetBits ELSE MaxTargetBits

\* Block::hasProofOfWork: the hash does not exceed the target of its own bits
HasProofOfWork(h) ==
    \/ h \in Hashes \cup {Genesis} \cup MoreHashes
    \/ \E k \in 1..MaxLong : LongBlocks[k] = h
    \/ \E k \in 1..MaxHard : HardBlocks[k] = h

\* Block::process for a full block: merkle root, coinbase, inputs, scripts
BodyValid(h) == h # "B1"

\* header times 600 s apart along every chain
TimeOf(h) ==
    CASE h = "G" -> 0
      [] h \in {"A1", "B1", "P3"} -> 600
      [] h \in {"S3", "H3"} -> 1800
      [] h = "E3" -> 2400
      [] h = "T3" -> 2401
      [] OTHER -> 1200

\* Hash::setDifficulty + Hash::getWork, in units of the work of a block at the
\* maximum target: floor(2^256 / (target + 1))
GetWork(bits) == IF bits = MaxTargetBits THEN 1 ELSE 2

\* Block::size
BlockSize(full) == IF full THEN HeaderSize + BodySize ELSE HeaderSize

(***************************************************************************)
(* Sequence helpers.                                                       *)
(***************************************************************************)
Last(s) == s[Len(s)]
Front(s, n) == SubSeq(s, 1, n)
SeqToSet(s) == {s[i] : i \in 1..Len(s)}
Min(a, b) == IF a < b THEN a ELSE b

RECURSIVE SumWork(_)
SumWork(blocks) ==
    IF blocks = <<>> THEN 0
    ELSE GetWork(TargetBitsOf(blocks[1].hash)) + SumWork(Tail(blocks))

(***************************************************************************)
(* State: the members of Chain, the collaborators it owns, and a record    *)
(* of the last operation (what the caller of the operation observes).      *)
(***************************************************************************)
VARIABLES
    network,                 \* MAINNET or TESTNET (global network())
    mBlockHashes,            \* hashes of the active chain, by height
    mBlockLookup,            \* hash -> height index (all buckets, in insertion order)
    mNextBlockHeight,
    mLastBlockHash,
    mLastFileID,
    blockFiles,              \* blocks stored in the block files, by height
    unreadable,              \* heights whose block cannot be read from its file
    mOutputs,                \* transaction output pool
    mBlockStats,
    mTargetBits,
    mPendingBlocks,
    mLastPendingHash,
    mPendingAccumulatedWork,
    mPendingSize,
    mPendingBlockCount,
    mLastFullPendingOffset,
    mBranches,
    mBlackListBlocks,
    mBlackListedNodeIDs,
    mPendingHeaders,         \* hashes announced whose header is awaited
    mStop,                   \* requestStop() was called
    mProcessMutex,           \* holder of the mutex of processBlock, or "" when free
    manager,                 \* position of the manager thread inside process()
    connection,              \* position of the connection thread inside addPendingBlock()
    now,                     \* getTime(), in seconds since the chain was loaded
    requestedTime,           \* PendingBlockData::requestedTime, by hash of the block
    call,                    \* a function called on its own: arguments and result
    faults,                  \* disk / commit failures still to be injected
    last,                    \* the last operation and what it did
    reorg                    \* the reorganisation under way (history)

vars == <<network, mBlockHashes, mBlockLookup, mNextBlockHeight, mLastBlockHash,
          mLastFileID, blockFiles, unreadable, mOutputs, mBlockStats, mTargetBits,
          mPendingBlocks, mLastPendingHash, mPendingAccumulatedWork, mPendingSize,
          mPendingBlockCount, mLastFullPendingOffset, mBranches, mBlackListBlocks,
          mBlackListedNodeIDs, mPendingHeaders, mStop, mProcessMutex, manager,
          connection, now, requestedTime, call, faults, last, reorg>>

\* the variables of the threads
threads == <<mProcessMutex, manager, connection>>

\* the variables outside the members of the chain and its threads
aside == <<now, requestedTime, call>>

\* the members of the chain and of the collaborators it owns
members == <<network, mBlockHashes, mBlockLookup, mNextBlockHeight, mLastBlockHash,
             mLastFileID, blockFiles, unreadable, mOutputs, mBlockStats,
             mTargetBits, mPendingBlocks, mLastPendingHash,
             mPendingAccumulatedWork, mPendingSize, mPendingBlockCount,
             mLastFullPendingOffset, mBranches, mBlackListBlocks,
             mBlackListedNodeIDs, mPendingHeaders, mStop>>

\* no function is called on its own
NoCall == [fn |-> "none"]

\* a thread that is in none of the operations
Idle == [pc |-> "idle", hash |-> ""]

\* the Chain object as a record, so that the private helpers can be composed
State ==
    [ network                 |-> network,
      mBlockHashes            |-> mBlockHashes,
      mBlockLookup            |-> mBlockLookup,
      mNextBlockHeight        |-> mNextBlockHeight,
      mLastBlockHash          |-> mLastBlockHash,
      mLastFileID             |-> mLastFileID,
      blockFiles              |-> blockFiles,
      unreadable              |-> unreadable,
      mOutputs                |-> mOutputs,
      mBlockStats             |-> mBlockStats,
      mTargetBits             |-> mTargetBits,
      mPendingBlocks          |-> mPendingBlocks,
      mLastPendingHash        |-> mLastPendingHash,
      mPendingAccumulatedWork |-> mPendingAccumulatedWork,
      mPendingSize            |-> mPendingSize,
      mPendingBlockCount      |-> mPendingBlockCount,
      mLastFullPendingOffset  |-> mLastFullPendingOffset,
      mBranches               |-> mBranches,
      mBlackListBlocks        |-> mBlackListBlocks,
      mBlackListedNodeIDs     |-> mBlackListedNodeIDs,
      mPendingHeaders         |-> mPendingHeaders,
      mStop                   |-> mStop ]

Install(c) ==
    /\ network' = c.network
    /\ mBlockHashes' = c.mBlockHashes
    /\ mBlockLookup' = c.mBlockLookup
    /\ mNextBlockHeight' = c.mNextBlockHeight
    /\ mLastBlockHash' = c.mLastBlockHash
    /\ mLastFileID' = c.mLastFileID
    /\ blockFiles' = c.blockFiles
    /\ unreadable' = c.unreadable
    /\ mOutputs' = c.mOutputs
    /\ mBlockStats' = c.mBlockStats
    /\ mTargetBits' = c.mTargetBits
    /\ mPendingBlocks' = c.mPendingBlocks
    /\ mLastPendingHash' = c.mLastPendingHash
    /\ mPendingAccumulatedWork' = c.mPendingAccumulatedWork
    /\ mPendingSize' = c.mPendingSize
    /\ mPendingBlockCount' = c.mPendingBlockCount
    /\ mLastFullPendingOffset' = c.mLastFullPendingOffset
    /\ mBranches' = c.mBranches
    /\ mBlackListBlocks' = c.mBlackListBlocks
    /\ mBlackListedNodeIDs' = c.mBlackListedNodeIDs
    /\ mPendingHeaders' = c.mPendingHeaders
    /\ mStop' = c.mStop

(***************************************************************************)
(* BlockStats: per height {time, targetBits, accumulatedWork}.             *)
(***************************************************************************)
StatsHeight(st) == Len(st) - 1

StatsAdd(st, time, bits) ==
    Append(st, [ time |-> time, targetBits |-> bits,
                 accumulatedWork |->
                     (IF st = <<>> THEN 0 ELSE Last(st).accumulatedWork) + GetWork(bits) ])

StatsRevert(st, h) == IF Len(st) > h + 1 THEN Front(st, h + 1) ELSE st

StatsTime(st, h) == IF h >= 0 /\ h < Len(st) THEN st[h + 1].time ELSE 0

StatsTargetBits(st, h) == IF h >= 0 /\ h < Len(st) THEN st[h + 1].targetBits ELSE 0

StatsAccumulatedWork(st, h) ==
    IF h >= 0 /\ h < Len(st) THEN st[h + 1].accumulatedWork ELSE 0

(***************************************************************************)
(* Transaction output pool: its height and the blocks whose spends and     *)
(* outputs it holds.                                                       *)
(***************************************************************************)
\* Block::process applies the block's transactions to the pool (uncommitted)
OutputsApply(o, hash) == [o EXCEPT !.blocks = Append(@, hash)]

\* TransactionOutputPool::commit
OutputsCommit(o, height) == [o EXCEPT !.height = height]

\* TransactionOutputPool::revert(transactions, height)
OutputsRevert(o, hash, height) ==
    [ height |-> IF o.height >= height THEN height - 1 ELSE o.height,
      blocks |-> SelectSeq(o.blocks, LAMBDA b : b # hash) ]

(***************************************************************************)
(* Chain accessors (chain.hpp).                                            *)
(***************************************************************************)
Height(c) == c.mNextBlockHeight - 1

LastPendingBlockHash(c) ==
    IF c.mLastPendingHash # EmptyHash THEN c.mLastPendingHash ELSE c.mLastBlockHash

AccumulatedWork(c) == StatsAccumulatedWork(c.mBlockStats, StatsHeight(c.mBlockStats))

PendingAccumulatedWork(c) == c.mPendingAccumulatedWork

BlockInChain(c, hash) == \E i \in 1..Len(c.mBlockLookup) : c.mBlockLookup[i].hash = hash

\* BlockSet::remove: erase the first entry with this hash
LookupRemove(lookup, hash) ==
    IF \E i \in 1..Len(lookup) : lookup[i].hash = hash
    THEN LET k == CHOOSE i \in 1..Len(lookup) :
                      /\ lookup[i].hash = hash
                      /\ \A j \in 1..(i - 1) : lookup[j].hash # hash
         IN  SubSeq(lookup, 1, k - 1) \o SubSeq(lookup, k + 1, Len(lookup))
    ELSE lookup

\* Chain::getBlock(height, block): the block file of that height exists and
\* holds a block at that offset
GetBlockOk(c, h) ==
    /\ h >= 0
    /\ h \div MAX_BLOCKS <= c.mLastFileID
    /\ h < Len(c.blockFiles)
    /\ h \notin c.unreadable

GetBlock(c, h) == c.blockFiles[h + 1]

(***************************************************************************)
(* PendingBlockData and Branch (chain.hpp).                                *)
(***************************************************************************)
NewPendingBlockData(hash, full) == [hash |-> hash, full |-> full, requestingNode |-> 0]

NewBranch(pHeight, pWork) ==
    [height |-> pHeight + 1, pendingBlocks |-> <<>>, accumulatedWork |-> pWork]

BranchAddBlock(br, hash, full) ==
    [br EXCEPT !.pendingBlocks = Append(@, NewPendingBlockData(hash, full)),
               !.accumulatedWork = @ + GetWork(TargetBitsOf(hash))]

\* Chain::addBlackListedBlock
\* a plausible slip: only the newest entry of the black list is looked at
IsBlackListedNewest(c, hash) ==
    Len(c.mBlackListBlocks) > 0 /\ Last(c.mBlackListBlocks) = hash

\* mBlackListBlocks.contains(pHash)
IsBlackListed(c, hash) == hash \in SeqToSet(c.mBlackListBlocks)

AddBlackListedBlock(c, hash) ==
    IF hash \in SeqToSet(c.mBlackListBlocks) THEN c
    ELSE [c EXCEPT !.mBlackListBlocks =
              Append(IF Len(@) > BlackListMax THEN Tail(@) ELSE @, hash)]

(***************************************************************************)
(* Chain::updateTargetBits.  The Forks collaborator reports the Cash fork  *)
(* inactive at every height of the universe, so the Cash DAA and EDA rules *)
(* are not entered; the original retarget fires at multiples of            *)
(* RETARGET_PERIOD only.                                                   *)
(***************************************************************************)
CashActive(c) == FALSE

\* multiplyTargetBits on the two targets of the universe: the factor is the
\* time taken by the last period over two weeks, limited to [0.25, 4.0]
MultiplyTargetBits(bits, span) ==
    IF span * 2 <= 1209600 /\ bits = MaxTargetBits THEN HardTargetBits
    ELSE IF span >= 2 * 1209600 THEN MaxTargetBits
    ELSE bits

\* A uint32_t is held as the int32_t of the same bits: the difference of two
\* times below 2^31 is their difference when it is not negative and stands
\* for 2^32 plus their difference when it is.  y is below 2^31.
ULess(x, y) == x >= 0 /\ x < y

UGreater(x, y) == x < 0 \/ x > y

\* "uint32_t timeSpan = lastTime - firstTime" and its limits
DaaTimeSpan(lastTime, firstTime) ==
    LET timeSpan == lastTime - firstTime
    IN  IF ULess(timeSpan, 72 * 600) THEN 72 * 600
        ELSE IF UGreater(timeSpan, 288 * 600) THEN 288 * 600
        ELSE timeSpan

\* the compact bits of the target (2^256 - work) / work limited to the
\* maximum target; work is counted in blocks of the maximum target
CompactOfWork(work) ==
    IF work <= 1 THEN MaxTargetBits ELSE 469762048 + (16776960 \div work)

\* multiplyTargetBits(bits, 1.25, mMaxTargetBits)
RaiseTargetBits(bits) ==
    LET exponent == bits \div 16777216
        mantissa == ((bits % 16777216) * 5) \div 4
        raised   == IF mantissa >= 8388608
                    THEN (exponent + 1) * 16777216 + (mantissa \div 256)
                    ELSE exponent * 16777216 + mantissa
    IN  IF raised > MaxTargetBits THEN MaxTargetBits ELSE raised

\* a plausible slip: the function returns after the Cash rules when one of
\* them was entered
ComputeTargetBitsFirstRule(v, bits) ==
    IF v.height <= 1 THEN MaxTargetBits
    ELSE IF v.cashActive /\ v.mtp > 1510600000 /\ v.height > 146
    THEN CompactOfWork((v.work * 600) \div DaaTimeSpan(v.lastTime, v.firstTime))
    ELSE IF v.cashActive /\ v.height > 7
    THEN IF ~ULess(v.mtp - v.mtp6, 43200)
         THEN RaiseTargetBits(v.lastTargetBits) ELSE bits
    ELSE IF v.height % RETARGET_PERIOD # 0 THEN bits
    ELSE MultiplyTargetBits(v.lastTargetBits,
             IF UGreater(v.lastBlockTime - v.lastAdjustmentTime, 4 * 1209600)
             THEN 4 * 1209600 ELSE v.lastBlockTime - v.lastAdjustmentTime)

\* the value of mTargetBits after updateTargetBits; bits is its value before
ComputeTargetBits(v, bits) ==
    IF v.height <= 1 THEN MaxTargetBits
    ELSE
    LET cash ==
            IF v.cashActive
            THEN IF v.mtp > 1510600000
                 THEN IF v.height > 146
                      THEN CompactOfWork((v.work * 600) \div
                                         DaaTimeSpan(v.lastTime, v.firstTime))
                      ELSE bits
                 ELSE IF v.height > 7 /\ ~ULess(v.mtp - v.mtp6, 43200)
                      THEN RaiseTargetBits(v.lastTargetBits)
                      ELSE bits
            ELSE bits
    IN  IF \/ v.height % RETARGET_PERIOD # 0
           \/ (v.cashActive /\ v.mtp > 1510600000)
        THEN cash
        ELSE MultiplyTargetBits(v.lastTargetBits,
                 IF UGreater(v.lastBlockTime - v.lastAdjustmentTime, 4 * 1209600)
                 THEN 4 * 1209600 ELSE v.lastBlockTime - v.lastAdjustmentTime)

\* what updateTargetBits reads in the chain c (the Cash rules read nothing
\* while the fork is inactive)
TargetView(c) ==
    LET st == c.mBlockStats
        h  == StatsHeight(st)
    IN  [ height |-> h, cashActive |-> CashActive(c), mtp |-> 0, mtp6 |-> 0,
          lastTime |-> 0, firstTime |-> 0, work |-> 0,
          lastBlockTime |-> StatsTime(st, h - 1),
          lastAdjustmentTime |-> StatsTime(st, h - RETARGET_PERIOD),
          lastTargetBits |-> StatsTargetBits(st, h - 1) ]

\* updateTargetBits on the members of the chain c.  The Cash fork is not
\* active on the chains of the model (CashActive), which leaves the rules
\* of ComputeTargetBits for the first heights and for the retarget; they are
\* written out here, and UpdateTargetBitsAgrees compares the two.
UpdateTargetBits(c) ==
    LET st   == c.mBlockStats
        h    == StatsHeight(st)
        span == StatsTime(st, h - 1) - StatsTime(st, h - RETARGET_PERIOD)
    IN  IF h <= 1 THEN [c EXCEPT !.mTargetBits = MaxTargetBits]
        ELSE IF h % RETARGET_PERIOD # 0 THEN c
        ELSE [c EXCEPT !.mTargetBits =
                 MultiplyTargetBits(StatsTargetBits(st, h - 1),
                     IF UGreater(span, 4 * 1209600) THEN 4 * 1209600 ELSE span)]

UpdateTargetBitsAgrees ==
    /\ ~CashActive(State)
    /\ UpdateTargetBits(State).mTargetBits =
          ComputeTargetBits(TargetView(State), mTargetBits)

(***************************************************************************)
(* Chain::revertBlockFileHeight and Chain::revert.                         *)
(***************************************************************************)
RevertBlockFileHeight(c, pHeight) ==
    LET fileID == pHeight \div MAX_BLOCKS
    IN  IF fileID > c.mLastFileID THEN [c |-> c, ok |-> FALSE]
        ELSE [ c  |-> [c EXCEPT !.mLastFileID = fileID,
                                !.blockFiles = Front(@, Min(Len(@), pHeight + 1))],
               ok |-> TRUE ]

\* one iteration of the while loop of revert above pHeight: the block at the
\* tip is undone
RevertBlock(c, block) ==
    [c EXCEPT !.mOutputs = OutputsRevert(@, block, Height(c)),
              !.mBlockLookup = LookupRemove(@, block),
              !.mBlockHashes = Front(@, Len(@) - 1),
              !.mNextBlockHeight = @ - 1]

\* the while loop of revert; undone lists the heights undone, in order
RECURSIVE RevertLoop(_, _, _)
RevertLoop(c, pHeight, undone) ==
    IF Height(c) >= pHeight
    THEN IF ~GetBlockOk(c, Height(c))
         THEN [c |-> c, ok |-> FALSE, undone |-> undone]
         ELSE LET block == GetBlock(c, Height(c))
              IN  IF Height(c) = pHeight
                  THEN [ c |-> [c EXCEPT !.mLastBlockHash = block],
                         ok |-> TRUE, undone |-> undone ]
                  ELSE RevertLoop(RevertBlock(c, block), pHeight,
                                  Append(undone, Height(c)))
    ELSE [c |-> c, ok |-> TRUE, undone |-> undone]

\* the end of revert, after the loop
RevertFinish(c, pHeight) ==
    LET c1 == [c EXCEPT !.mBlockStats = StatsRevert(@, pHeight)]
    IN  RevertBlockFileHeight(c1, Height(c1))

Revert(c, pHeight) ==
    LET r == RevertLoop(c, pHeight, <<>>)
    IN  IF ~r.ok THEN r
        ELSE LET f == RevertFinish(r.c, pHeight)
             IN  [c |-> f.c, ok |-> f.ok, undone |-> r.undone]

(***************************************************************************)
(* Chain::processBlock.  fileOk: the block file could be opened/created    *)
(* and the block written; commitOk: TransactionOutputPool::commit          *)
(* succeeded.                                                              *)
(***************************************************************************)
UseTestMinDifficulty(c, hash) ==
    /\ c.network = "TESTNET"
    /\ (TimeOf(hash) - StatsTime(c.mBlockStats, StatsHeight(c.mBlockStats) - 1)) % UIntModulus > 1200

\* a plausible slip: the failure path forgets mBlockStats.revert
UndoBlockStatsKeepsStats(x, c) == [x EXCEPT !.mTargetBits = c.mTargetBits]

\* the failure paths of processBlock: "mTargetBits = previousTargetBits;
\* mBlockStats.revert(mNextBlockHeight - 1);" (c is the chain at the call)
UndoBlockStats(x, c) ==
    [x EXCEPT !.mBlockStats = StatsRevert(@, c.mNextBlockHeight - 1),
              !.mTargetBits = c.mTargetBits]

\* the end of processBlock: the block is linked into the chain
LinkBlock(c, hash) ==
    [c EXCEPT !.mBlockHashes = Append(@, hash),
              !.mBlockLookup = Append(@, [hash |-> hash, height |-> c.mNextBlockHeight]),
              !.mNextBlockHeight = @ + 1,
              !.mLastBlockHash = hash]

\* processBlock up to the commit of the outputs
ValidateBlock(c, hash, fileOk, commitOk) ==
    LET c1 == [c EXCEPT !.mBlockStats = StatsAdd(@, TimeOf(hash), TargetBitsOf(hash))]
        useTestMinDifficulty == UseTestMinDifficulty(c1, hash)
        c2 == UpdateTargetBits(c1)
        undoStats(x) == UndoBlockStats(x, c)
        c3 == [c2 EXCEPT !.mOutputs = OutputsApply(@, hash)]
        c4 == IF fileOk THEN [c3 EXCEPT !.blockFiles = Append(@, hash)] ELSE c3
    IN  IF /\ TargetBitsOf(hash) # c2.mTargetBits
           /\ ~(useTestMinDifficulty /\ TargetBitsOf(hash) = 486604799)
        THEN [c |-> undoStats(c2), ok |-> FALSE, why |-> "target"]
        ELSE IF ~BodyValid(hash)
        THEN [ c |-> undoStats([c3 EXCEPT !.mOutputs =
                                    OutputsRevert(@, hash, c.mNextBlockHeight)]),
               ok |-> FALSE, why |-> "block" ]
        ELSE IF fileOk /\ ~commitOk
        THEN [ c |-> undoStats([c4 EXCEPT !.mOutputs =
                                    OutputsRevert(@, hash, c.mNextBlockHeight)]),
               ok |-> FALSE, why |-> "commit" ]
        ELSE IF fileOk
        THEN [ c |-> [c4 EXCEPT !.mOutputs = OutputsCommit(@, c.mNextBlockHeight)],
               ok |-> TRUE, why |-> "added" ]
        ELSE [c |-> undoStats(c4), ok |-> FALSE, why |-> "file"]

ProcessBlock(c, hash, fileOk, commitOk) ==
    LET v == ValidateBlock(c, hash, fileOk, commitOk)
    IN  IF v.ok THEN [v EXCEPT !.c = LinkBlock(@, hash)] ELSE v

(***************************************************************************)
(* Chain::checkBranches.                                                   *)
(***************************************************************************)
\* the loop over mBranches: branches far behind are dropped, the branch with
\* the most work among those exceeding the pending accumulated work is
\* remembered (its position in the branches kept)
RECURSIVE ScanBranches(_, _, _, _)
ScanBranches(c, rest, kept, longest) ==
    IF rest = <<>> THEN [kept |-> kept, longest |-> longest]
    ELSE LET br == rest[1]
             work == PendingAccumulatedWork(c)
         IN  IF /\ br.accumulatedWork < work
                /\ Height(c) > BranchDropDepth
                /\ br.height + Len(br.pendingBlocks) < Height(c) - BranchDropDepth
             THEN ScanBranches(c, Tail(rest), kept, longest)
             ELSE IF /\ br.accumulatedWork > work
                     /\ (longest = 0 \/ br.accumulatedWork > kept[longest].accumulatedWork)
             THEN ScanBranches(c, Tail(rest), Append(kept, br), Len(kept) + 1)
             ELSE ScanBranches(c, Tail(rest), Append(kept, br), longest)

\* "Read all main chain blocks above branch height and put them in a branch."
RECURSIVE ReadMainChain(_, _, _, _)
ReadMainChain(c, br, i, currentHeight) ==
    IF i < currentHeight
    THEN ReadMainChain(c,
             IF GetBlockOk(c, i) THEN BranchAddBlock(br, GetBlock(c, i), TRUE)
             ELSE BranchAddBlock(br, EmptyHash, FALSE),
             i + 1, currentHeight)
    ELSE br

\* "Add current main pending blocks to branch"
RECURSIVE AddPendingToBranch(_, _)
AddPendingToBranch(br, pending) ==
    IF pending = <<>> THEN br
    ELSE AddPendingToBranch(BranchAddBlock(br, pending[1].hash, pending[1].full),
                            Tail(pending))

\* "Put all the branch pending blocks into the main pending blocks."
RECURSIVE MoveBranchToPending(_, _, _)
MoveBranchToPending(c, blocks, offset) ==
    IF blocks = <<>> THEN c
    ELSE LET p == blocks[1]
             c1 == [c EXCEPT
                      !.mPendingBlocks = Append(@, p),
                      !.mPendingAccumulatedWork = @ + GetWork(TargetBitsOf(p.hash)),
                      !.mPendingSize = (@ + BlockSize(p.full)) % UIntModulus,
                      !.mLastFullPendingOffset = IF p.full THEN offset ELSE @,
                      !.mPendingBlockCount = IF p.full THEN (@ + 1) % UIntModulus ELSE @]
         IN  MoveBranchToPending(c1, Tail(blocks), offset + 1)

RemoveAt(s, k) == SubSeq(s, 1, k - 1) \o SubSeq(s, k + 1, Len(s))

\* result: the chain after the call, the return value, and what was done:
\* activated (the branch activated, as it was, or <<>>), saved (the branch
\* record made of the previous main chain), undone (heights reverted)
\* the pending blocks are cleared before the main chain is reverted
ClearForActivation(c) ==
    [c EXCEPT !.mPendingBlocks = <<>>,
              !.mPendingSize = 0,
              !.mLastFullPendingOffset = 0,
              !.mPendingBlockCount = 0,
              !.mLastPendingHash = EmptyHash,
              !.mPendingAccumulatedWork = AccumulatedWork(c)]

\* the branch saved for the main chain and its pending blocks
SaveMainBranch(c, longestBranch) ==
    AddPendingToBranch(
        ReadMainChain(c,
            NewBranch(longestBranch.height - 1,
                      StatsAccumulatedWork(c.mBlockStats, longestBranch.height - 1)),
            longestBranch.height, Height(c)),
        c.mPendingBlocks)

\* after the revert: the branch at position longest becomes the pending
\* list, the saved branch takes a place among the branches
ActivateBranch(c, longest, newBranch) ==
    LET c2 == MoveBranchToPending(c, c.mBranches[longest].pendingBlocks, 0)
    IN  [c2 EXCEPT !.mBranches = Append(RemoveAt(@, longest), newBranch)]

CheckBranches(c) ==
    IF Len(c.mBranches) = 0
    THEN [c |-> c, ok |-> TRUE, activated |-> <<>>, saved |-> <<>>, undone |-> <<>>]
    ELSE
    LET scan == ScanBranches(c, c.mBranches, <<>>, 0)
        c0   == [c EXCEPT !.mBranches = scan.kept]
    IN  IF scan.longest = 0
        THEN [c |-> c0, ok |-> TRUE, activated |-> <<>>, saved |-> <<>>, undone |-> <<>>]
        ELSE
        LET longestBranch == scan.kept[scan.longest]
            newBranch == SaveMainBranch(c0, longestBranch)
            c1 == ClearForActivation(c0)
            r  == Revert(c1, longestBranch.height - 1)
        IN  IF ~r.ok
            THEN [ c |-> r.c, ok |-> FALSE, activated |-> <<>>, saved |-> <<>>,
                   undone |-> r.undone ]
            ELSE
            LET c3 == ActivateBranch(r.c, scan.longest, newBranch)
            IN  [ c |-> c3, ok |-> TRUE, activated |-> <<longestBranch>>,
                  saved |-> <<newBranch>>, undone |-> r.undone ]

(***************************************************************************)
(* Chain::addPendingBlock(pBlock): pBlock has the given hash and is a full *)
(* block (transactionCount > 0) or a header.                               *)
(***************************************************************************)
IndexOfHash(blocks, hash) ==
    IF \E i \in 1..Len(blocks) : blocks[i].hash = hash
    THEN CHOOSE i \in 1..Len(blocks) :
             /\ blocks[i].hash = hash
             /\ \A j \in 1..(i - 1) : blocks[j].hash # hash
    ELSE 0

\* first branch (position) holding the hash, or 0
BranchWithHash(c, hash) ==
    IF \E b \in 1..Len(c.mBranches) : IndexOfHash(c.mBranches[b].pendingBlocks, hash) # 0
    THEN CHOOSE b \in 1..Len(c.mBranches) :
             /\ IndexOfHash(c.mBranches[b].pendingBlocks, hash) # 0
             /\ \A a \in 1..(b - 1) : IndexOfHash(c.mBranches[a].pendingBlocks, hash) = 0
    ELSE 0

\* first branch (position) whose last block is the previous hash, or 0
BranchEndingWith(c, prev) ==
    LET fits(b) == /\ Len(c.mBranches[b].pendingBlocks) > 0
                   /\ Last(c.mBranches[b].pendingBlocks).hash = prev
    IN  IF \E b \in 1..Len(c.mBranches) : fits(b)
        THEN CHOOSE b \in 1..Len(c.mBranches) : fits(b) /\ \A a \in 1..(b - 1) : ~fits(a)
        ELSE 0

\* height of the previous hash among the last 100 hashes of the chain, or -1
\* (the nearest to the tip)
ChainHeightOfRecent(c, prev) ==
    LET n == Len(c.mBlockHashes)
        found(k) == k >= 1 /\ k > n - 100 /\ c.mBlockHashes[k] = prev
    IN  IF \E k \in 1..n : found(k)
        THEN Height(c) - (n - (CHOOSE k \in 1..n : found(k) /\ \A j \in (k + 1)..n : ~found(j)))
        ELSE -1

\* a plausible slip: the block is compared with the tip although blocks are pending
FitsMainPendingTipOnly(c, hash) ==
    \/ PreviousHash(hash) = ZeroHash /\ c.mLastBlockHash = EmptyHash
    \/ PreviousHash(hash) = c.mLastBlockHash

\* rule 1: the block extends the main pending list (or the tip when it is empty)
FitsMainPending(c, hash) ==
    \/ /\ Len(c.mPendingBlocks) = 0
       /\ \/ PreviousHash(hash) = ZeroHash /\ c.mLastBlockHash = EmptyHash
          \/ PreviousHash(hash) = c.mLastBlockHash
    \/ /\ Len(c.mPendingBlocks) # 0
       /\ Last(c.mPendingBlocks).hash = PreviousHash(hash)

\* the part of addPendingBlock under the pending lock; rule names the
\* branch of the code that handled the block
AddPendingCore(c, hash, full) ==
    LET prev == PreviousHash(hash)
        pi == IndexOfHash(c.mPendingBlocks, hash)
        bi == BranchWithHash(c, hash)
        pp == IndexOfHash(c.mPendingBlocks, prev)
        be == BranchEndingWith(c, prev)
        ch == ChainHeightOfRecent(c, prev)
        no(rule) == [c |-> c, ret |-> FALSE, rule |-> rule, branchesUpdated |-> FALSE]
        \* "Remove pending header"
        ph == c.mPendingHeaders
        d  == IF \E i \in 1..Len(ph) : ph[i].hash = hash
              THEN [c EXCEPT !.mPendingHeaders =
                       RemoveAt(@, CHOOSE i \in 1..Len(ph) :
                                      /\ ph[i].hash = hash
                                      /\ \A j \in 1..(i - 1) : ph[j].hash # hash)]
              ELSE c
        had(rule) == [no(rule) EXCEPT !.c = d]
    IN  IF IsBlackListed(c, hash) THEN no("blacklisted")
        ELSE IF BlockInChain(c, hash) THEN no("inchain")
        ELSE IF ~HasProofOfWork(hash)
        THEN [no("nowork") EXCEPT !.c = AddBlackListedBlock(c, hash)]
        ELSE IF FitsMainPending(c, hash)
        THEN [ c |-> [d EXCEPT
                        !.mPendingBlocks = Append(@, NewPendingBlockData(hash, full)),
                        !.mPendingAccumulatedWork = @ + GetWork(TargetBitsOf(hash)),
                        !.mLastPendingHash = hash,
                        !.mPendingSize = (@ + BlockSize(full)) % UIntModulus],
               ret |-> TRUE, rule |-> "main", branchesUpdated |-> FALSE ]
        ELSE IF pi # 0
        THEN IF full /\ ~c.mPendingBlocks[pi].full
             THEN [ c |-> [d EXCEPT
                             !.mPendingBlocks[pi].full = TRUE,
                             !.mPendingSize = (@ - BlockSize(FALSE) + BlockSize(TRUE)) % UIntModulus,
                             !.mPendingBlockCount = (@ + 1) % UIntModulus,
                             !.mLastFullPendingOffset =
                                 IF pi - 1 > @ THEN pi - 1 ELSE @],
                    ret |-> TRUE, rule |-> "fill", branchesUpdated |-> FALSE ]
             ELSE had("have")
        ELSE IF bi # 0
        THEN LET k == IndexOfHash(c.mBranches[bi].pendingBlocks, hash)
             IN  IF c.mBranches[bi].pendingBlocks[k].full THEN had("have")
                 ELSE [ c |-> [d EXCEPT !.mBranches[bi].pendingBlocks[k].full = full],
                        ret |-> TRUE, rule |-> "fillbranch", branchesUpdated |-> FALSE ]
        ELSE IF pp # 0
        THEN [ c |-> [d EXCEPT !.mBranches = Append(@,
                        BranchAddBlock(
                            NewBranch(Height(c) + (pp - 1) + 1,
                                StatsAccumulatedWork(c.mBlockStats, Height(c) + (pp - 1) + 1)),
                            hash, full))],
               ret |-> TRUE, rule |-> "branchpending", branchesUpdated |-> TRUE ]
        ELSE IF be # 0
        THEN [ c |-> [d EXCEPT !.mBranches[be] = BranchAddBlock(@, hash, full)],
               ret |-> TRUE, rule |-> "extend", branchesUpdated |-> TRUE ]
        ELSE IF ch # -1
        THEN [ c |-> [d EXCEPT !.mBranches = Append(@,
                        BranchAddBlock(
                            NewBranch(ch, StatsAccumulatedWork(c.mBlockStats, ch)),
                            hash, full))],
               ret |-> TRUE, rule |-> "branchchain", branchesUpdated |-> TRUE ]
        ELSE had("unknown")

NoCheck(c) == [c |-> c, ok |-> TRUE, activated |-> <<>>, saved |-> <<>>, undone |-> <<>>]

\* the whole call: the locked part, then checkBranches when a branch changed
AddPendingBlock(c, hash, full) ==
    LET a == AddPendingCore(c, hash, full)
        cb == IF a.branchesUpdated THEN CheckBranches(a.c) ELSE NoCheck(a.c)
    IN  [c |-> cb.c, ret |-> a.ret, rule |-> a.rule, check |-> cb]

(***************************************************************************)
(* Chain::addPendingHash(pHash, pNodeID).  timedOut: more than 2 seconds   *)
(* passed since the header was requested.                                  *)
(***************************************************************************)
AddPendingHash(c, hash, node, timedOut) ==
    LET pi == IndexOfHash(c.mPendingBlocks, hash)
        hi == IndexOfHash(c.mPendingHeaders, hash)
        is(status) == [c |-> c, status |-> status]
    IN  IF IsBlackListed(c, hash) THEN is("BLACK_LISTED")
        ELSE IF BlockInChain(c, hash) \/ BranchWithHash(c, hash) # 0
        THEN is("ALREADY_HAVE")
        ELSE IF pi # 0
        THEN IF ~c.mPendingBlocks[pi].full /\ c.mPendingBlocks[pi].requestingNode = 0
             THEN is("NEED_BLOCK")
             ELSE is("ALREADY_HAVE")
        ELSE IF hi # 0
        THEN IF c.mPendingHeaders[hi].requestingNode = 0 \/ timedOut
             THEN [ c |-> [c EXCEPT !.mPendingHeaders[hi].requestingNode = node],
                    status |-> "NEED_HEADER" ]
             ELSE is("ALREADY_HAVE")
        ELSE [ c |-> [c EXCEPT !.mPendingHeaders =
                         Append(@, [hash |-> hash, requestingNode |-> node])],
               status |-> "NEED_HEADER" ]

(***************************************************************************)
(* Chain::getBlocksNeeded(pHashes, pCount, pReduceOnly): the hashes put    *)
(* into pHashes.  k is the position of the iterator (offset + 1).          *)
(***************************************************************************)
RECURSIVE BlocksNeededLoop(_, _, _, _, _)
BlocksNeededLoop(c, k, pHashes, pCount, pReduceOnly) ==
    IF k > Len(c.mPendingBlocks) THEN pHashes
    ELSE IF pReduceOnly /\ k - 1 >= c.mLastFullPendingOffset THEN pHashes
    ELSE LET pending == c.mPendingBlocks[k]
         IN  IF ~pending.full /\ pending.requestingNode = 0
             THEN LET hashes == Append(pHashes, pending.hash)
                  IN  IF Len(hashes) >= pCount THEN hashes
                      ELSE BlocksNeededLoop(c, k + 1, hashes, pCount, pReduceOnly)
             ELSE BlocksNeededLoop(c, k + 1, pHashes, pCount, pReduceOnly)

\* Chain::blocksNeeded at the time t; requested gives the requestedTime of
\* the pending entries
BlocksNeeded(c, t, requested) ==
    \E k \in 1..Len(c.mPendingBlocks) :
        \/ c.mPendingBlocks[k].requestingNode = 0
        \/ (t - requested[c.mPendingBlocks[k].hash]) % UIntModulus > BlockRequestTimeout

\* Chain::releaseBlocksForNode
ReleaseBlocksForNode(c, node) ==
    [c EXCEPT !.mPendingBlocks =
        [k \in 1..Len(@) |->
            IF ~@[k].full /\ @[k].requestingNode = node
            THEN [@[k] EXCEPT !.requestingNode = 0]
            ELSE @[k]]]

\* a plausible slip: pReduceOnly is not looked at
GetBlocksNeededIgnoresReduce(c, pCount, pReduceOnly) ==
    BlocksNeededLoop(c, 1, <<>>, pCount, FALSE)

GetBlocksNeeded(c, pCount, pReduceOnly) ==
    BlocksNeededLoop(c, 1, <<>>, pCount, pReduceOnly)

(***************************************************************************)
(* Chain::markBlocksForNode for one hash.                                  *)
(***************************************************************************)
MarkBlocksForNode(c, hash, node) ==
    LET k == IndexOfHash(c.mPendingBlocks, hash)
    IN  IF k = 0 THEN c ELSE [c EXCEPT !.mPendingBlocks[k].requestingNode = node]

(***************************************************************************)
(* Chain::process.                                                         *)
(***************************************************************************)
\* a plausible slip: the count of full pending blocks is not reset
ClearPendingKeepsCount(c, nextPending) ==
    LET c1 == [c EXCEPT !.mBlackListedNodeIDs = Append(@, nextPending.requestingNode)]
        c2 == AddBlackListedBlock(c1, nextPending.hash)
    IN  [c2 EXCEPT !.mPendingBlocks = <<>>,
                   !.mLastPendingHash = EmptyHash,
                   !.mLastFullPendingOffset = 0,
                   !.mPendingSize = 0,
                   !.mPendingAccumulatedWork = AccumulatedWork(c2)]

\* the else branch of process: "Clear pending blocks since they assumed this
\* block was good", before the branches are checked
ClearPending(c, nextPending) ==
    LET c1 == [c EXCEPT !.mBlackListedNodeIDs = Append(@, nextPending.requestingNode)]
        c2 == AddBlackListedBlock(c1, nextPending.hash)
    IN  [c2 EXCEPT !.mPendingBlocks = <<>>,
                   !.mLastPendingHash = EmptyHash,
                   !.mLastFullPendingOffset = 0,
                   !.mPendingSize = 0,
                   !.mPendingBlockCount = 0,
                   !.mPendingAccumulatedWork = AccumulatedWork(c2)]

\* a plausible slip: the entry erased is the last one, not the first
RemovePendingPopsBack(c, nextPending) ==
    [c EXCEPT !.mPendingSize = (@ - BlockSize(nextPending.full)) % UIntModulus,
              !.mPendingBlockCount = (@ - 1) % UIntModulus,
              !.mPendingBlocks = Front(@, Len(@) - 1),
              !.mLastPendingHash = IF Len(c.mPendingBlocks) = 1 THEN EmptyHash ELSE @,
              !.mLastFullPendingOffset = IF @ > 0 THEN @ - 1 ELSE @]

\* the then branch of process: the block was added to the chain
RemovePending(c, nextPending) ==
    [c EXCEPT !.mPendingSize = (@ - BlockSize(nextPending.full)) % UIntModulus,
              !.mPendingBlockCount = (@ - 1) % UIntModulus,
              !.mPendingBlocks = Tail(@),
              !.mLastPendingHash = IF Len(c.mPendingBlocks) = 1 THEN EmptyHash ELSE @,
              !.mLastFullPendingOffset = IF @ > 0 THEN @ - 1 ELSE @]

Process(c, fileOk, commitOk) ==
    IF c.mStop
    THEN [c |-> c, result |-> "stopped", hash |-> EmptyHash, check |-> NoCheck(c)]
    ELSE IF Len(c.mPendingBlocks) = 0
    THEN [c |-> c, result |-> "empty", hash |-> EmptyHash, check |-> NoCheck(c)]
    ELSE LET nextPending == c.mPendingBlocks[1]
         IN  IF ~nextPending.full
             THEN [c |-> c, result |-> "header", hash |-> nextPending.hash,
                   check |-> NoCheck(c)]
             ELSE LET r == ProcessBlock(c, nextPending.hash, fileOk, commitOk)
                  IN  IF r.ok
                      THEN [ c |-> RemovePending(r.c, nextPending), result |-> r.why,
                             hash |-> nextPending.hash, check |-> NoCheck(r.c) ]
                      ELSE LET cb == CheckBranches(ClearPending(r.c, nextPending))
                           IN  [ c |-> cb.c, result |-> r.why,
                                 hash |-> nextPending.hash, check |-> cb ]

(***************************************************************************)
(* History of the reorganisation under way.  stage "B": a branch B was     *)
(* activated over the main chain whose hash list is chain, the record      *)
(* saved for the previous main chain is saved, left blocks of B are still  *)
(* to be replayed, pend tells whether main pending blocks were saved too.  *)
(* stage "M": the saved record was activated again, left of its blocks     *)
(* are still to be processed.  stage "done": they all were processed.      *)
(* stage "lost": a block of B failed and the saved record stayed a branch. *)
(***************************************************************************)
NoReorg == [stage |-> "none", chain |-> <<>>, saved |-> <<>>, left |-> 0, pend |-> FALSE]

Failures == {"target", "block", "commit", "file"}

\* rg: the history so far; before: the chain when the operation was called;
\* npend: the main pending blocks when checkBranches was called; cb: what
\* checkBranches did; result: the result of process ("" for other operations)
Track(rg, before, npend, cb, result) ==
    IF cb.activated # <<>>
    THEN IF rg.stage = "B" /\ rg.saved = cb.activated
         THEN [ stage |-> IF cb.activated[1].pendingBlocks = <<>> THEN "done" ELSE "M",
                chain |-> rg.chain, saved |-> <<>>,
                left |-> Len(cb.activated[1].pendingBlocks), pend |-> rg.pend ]
         ELSE IF cb.activated[1].pendingBlocks = <<>> THEN NoReorg
         ELSE [ stage |-> "B", chain |-> before.mBlockHashes, saved |-> cb.saved,
                left |-> Len(cb.activated[1].pendingBlocks), pend |-> npend # 0 ]
    ELSE IF result = "added"
    THEN IF rg.stage \in {"B", "M"}
         THEN IF rg.left > 1 THEN [rg EXCEPT !.left = @ - 1]
              ELSE IF rg.stage = "M" THEN [rg EXCEPT !.stage = "done", !.left = 0]
              ELSE NoReorg
         ELSE NoReorg
    ELSE IF result \in Failures
    THEN IF rg.stage = "B" THEN [rg EXCEPT !.stage = "lost", !.left = 0]
         ELSE NoReorg
    ELSE IF rg.stage \in {"done", "lost"} THEN NoReorg
    ELSE rg

(***************************************************************************)
(* Initial state: Chain::Chain() followed by Chain::load() on an empty     *)
(* data directory, which adds the genesis block with processBlock.         *)
(***************************************************************************)
Constructed ==
    [ network                 |-> "MAINNET",
      mBlockHashes            |-> <<>>,
      mBlockLookup            |-> <<>>,
      mNextBlockHeight        |-> 0,
      mLastBlockHash          |-> ZeroHash,
      mLastFileID             |-> 0,
      blockFiles              |-> <<>>,
      unreadable              |-> {},
      mOutputs                |-> [height |-> -1, blocks |-> <<>>],
      mBlockStats             |-> <<>>,
      mTargetBits             |-> MaxTargetBits,
      mPendingBlocks          |-> <<>>,
      mLastPendingHash        |-> EmptyHash,
      mPendingAccumulatedWork |-> 0,
      mPendingSize            |-> 0,
      mPendingBlockCount      |-> 0,
      mLastFullPendingOffset  |-> 0,
      mBranches               |-> <<>>,
      mBlackListBlocks        |-> <<>>,
      mBlackListedNodeIDs     |-> <<>>,
      mPendingHeaders         |-> <<>>,
      mStop                   |-> FALSE ]

Loaded == ProcessBlock(Constructed, Genesis, TRUE, TRUE).c

\* Chain::load of block files that hold the blocks files: the hashes are
\* indexed, the statistics and the outputs brought to the height of the
\* chain, the target bits taken from the statistics
RECURSIVE LoadBlocks(_, _)
LoadBlocks(c, files) ==
    IF files = <<>> THEN c
    ELSE LoadBlocks(
            LinkBlock([c EXCEPT
                         !.blockFiles = Append(@, files[1]),
                         !.mBlockStats = StatsAdd(@, TimeOf(files[1]),
                                                  TargetBitsOf(files[1])),
                         !.mOutputs = OutputsCommit(OutputsApply(@, files[1]),
                                                    c.mNextBlockHeight)],
                      files[1]),
            Tail(files))

LoadChain(c, files) ==
    LET d == LoadBlocks(c, files)
        h == StatsHeight(d.mBlockStats)
    IN  [d EXCEPT !.mTargetBits = IF h > 0 THEN StatsTargetBits(d.mBlockStats, h)
                                  ELSE MaxTargetBits,
                  !.mPendingAccumulatedWork = IF h > 0 THEN AccumulatedWork(d) ELSE 0]

NoOperation ==
    [op |-> "load", hash |-> EmptyHash, full |-> FALSE, result |-> "", activated |-> FALSE]

\* the chain is c and no operation is under way
InitMembers(c) ==
    /\ network = c.network
    /\ mBlockHashes = c.mBlockHashes
    /\ mBlockLookup = c.mBlockLookup
    /\ mNextBlockHeight = c.mNextBlockHeight
    /\ mLastBlockHash = c.mLastBlockHash
    /\ mLastFileID = c.mLastFileID
    /\ blockFiles = c.blockFiles
    /\ unreadable = c.unreadable
    /\ mOutputs = c.mOutputs
    /\ mBlockStats = c.mBlockStats
    /\ mTargetBits = c.mTargetBits
    /\ mPendingBlocks = c.mPendingBlocks
    /\ mLastPendingHash = c.mLastPendingHash
    /\ mPendingAccumulatedWork = c.mPendingAccumulatedWork
    /\ mPendingSize = c.mPendingSize
    /\ mPendingBlockCount = c.mPendingBlockCount
    /\ mLastFullPendingOffset = c.mLastFullPendingOffset
    /\ mBranches = c.mBranches
    /\ mBlackListBlocks = c.mBlackListBlocks
    /\ mBlackListedNodeIDs = c.mBlackListedNodeIDs
    /\ mPendingHeaders = c.mPendingHeaders
    /\ mStop = c.mStop
    /\ mProcessMutex = ""
    /\ manager = Idle
    /\ connection = Idle
    /\ now = 0
    /\ requestedTime = [hash \in Hashes |-> 0]
    /\ last = NoOperation
    /\ reorg = NoReorg

InitAt(c) == InitMembers(c) /\ call = NoCall

InitChain == InitAt(Loaded)

Init == InitChain /\ faults = 0

InitFaults == InitChain /\ faults = MaxFaults

(***************************************************************************)
(* Actions: one per operation.  A call that changes nothing is a           *)
(* stuttering step.                                                        *)
(***************************************************************************)
Record(c, l, rg) ==
    IF c = State THEN UNCHANGED vars
    ELSE Install(c) /\ last' = l /\ reorg' = rg /\ UNCHANGED <<faults, threads, aside>>

SubmitBlock(hash, full) ==
    LET r == AddPendingBlock(State, hash, full)
    IN  Record(r.c,
               [op |-> "addPendingBlock", hash |-> hash, full |-> full,
                result |-> r.rule, activated |-> r.check.activated # <<>>],
               Track(reorg, State, Len(mPendingBlocks), r.check, ""))

DoAddPendingBlock ==
    \E hash \in Hashes, full \in BOOLEAN : SubmitBlock(hash, full)

DoMarkBlocksForNode ==
    \E k \in 1..Len(mPendingBlocks), node \in 1..NumNodes :
        Record(MarkBlocksForNode(State, mPendingBlocks[k].hash, node),
               [op |-> "markBlocksForNode", hash |-> mPendingBlocks[k].hash,
                full |-> FALSE, result |-> "", activated |-> FALSE],
               Track(reorg, State, Len(mPendingBlocks), NoCheck(State), ""))

DoProcess ==
    LET r == Process(State, TRUE, TRUE)
    IN  Record(r.c,
               [op |-> "process", hash |-> r.hash, full |-> TRUE,
                result |-> r.result, activated |-> r.check.activated # <<>>],
               Track(reorg, State, 0, r.check, r.result))

\* process() during which the block file or the commit of the outputs fails
DoProcessFault ==
    /\ faults > 0
    /\ \E fileOk, commitOk \in BOOLEAN :
          /\ ~(fileOk /\ commitOk)
          /\ LET r == Process(State, fileOk, commitOk)
             IN  /\ r.result \in {"file", "commit"}
                 /\ Install(r.c)
                 /\ last' = [op |-> "process", hash |-> r.hash, full |-> TRUE,
                             result |-> r.result, activated |-> r.check.activated # <<>>]
                 /\ reorg' = Track(reorg, State, 0, r.check, r.result)
                 /\ faults' = faults - 1
                 /\ UNCHANGED <<threads, aside>>

Next == DoAddPendingBlock \/ DoMarkBlocksForNode \/ DoProcess

Spec == Init /\ [][Next]_vars

\* the requests of nodes are left out of the runs with faults: marking a
\* pending header changes no member that a failing file or commit touches
NextFaults == DoAddPendingBlock \/ DoProcess \/ DoProcessFault

SpecFaults == InitFaults /\ [][NextFaults]_vars

\* a block of the active chain becomes unreadable (a damaged block file)
DoReadFault ==
    /\ faults > 0
    /\ Height(State) > 1
    /\ \E h \in 0..Height(State) :
          /\ Install([State EXCEPT !.unreadable = {h}])
          /\ last' = [op |-> "readFault", hash |-> GetBlock(State, h), full |-> TRUE,
                      result |-> "", activated |-> FALSE]
          /\ faults' = faults - 1
          /\ UNCHANGED <<reorg, threads, aside>>

NextReadFaults == DoAddPendingBlock \/ DoProcess \/ DoReadFault

SpecReadFaults == InitFaults /\ [][NextReadFaults]_vars

(***************************************************************************)
(* The two threads that change the chain: the manager thread runs          *)
(* process(), a connection thread runs addPendingBlock().  A step is the   *)
(* code between two points where the other thread can run and see the      *)
(* members: processBlock holds mProcessMutex from its start to its end,    *)
(* checkBranches holds the write lock of mPendingLock from its scan to its *)
(* end, process() holds mPendingLock only around its reads and around the  *)
(* removal of the head.                                                    *)
(***************************************************************************)
\* the write lock of mPendingLock is held (by checkBranches on the
\* connection thread)
PendingWriteLocked == connection.pc = "revert"

Step(c, m, k, mutex, op, hash) ==
    /\ Install(c)
    /\ manager' = m
    /\ connection' = k
    /\ mProcessMutex' = mutex
    /\ last' = [op |-> op, hash |-> hash, full |-> TRUE, result |-> "",
                activated |-> FALSE]
    /\ UNCHANGED <<faults, reorg, aside>>

\* process() up to the lock of processBlock: the head of the pending list is
\* a full block
ProcessBegin ==
    /\ manager.pc = "idle"
    /\ ~mStop
    /\ ~PendingWriteLocked
    /\ mProcessMutex = ""
    /\ Len(mPendingBlocks) > 0
    /\ mPendingBlocks[1].full
    /\ Step(State, [pc |-> "validate", hash |-> mPendingBlocks[1].hash],
            connection, "manager", "processBlock", mPendingBlocks[1].hash)

\* processBlock up to the commit of the outputs
ProcessValidate ==
    /\ manager.pc = "validate"
    /\ LET v == ValidateBlock(State, manager.hash, TRUE, TRUE)
       IN  IF v.ok
           THEN Step(v.c, [manager EXCEPT !.pc = "committed"], connection,
                     "manager", "commit", manager.hash)
           ELSE Step(v.c, [manager EXCEPT !.pc = "failed"], connection,
                     "", v.why, manager.hash)

\* processBlock from the commit to the unlock
ProcessLink ==
    /\ manager.pc = "committed"
    /\ Step(LinkBlock(State, manager.hash), [manager EXCEPT !.pc = "added"],
            connection, "", "link", manager.hash)

\* the rest of process(): the head is removed from the pending list, or the
\* pending list is cleared and the branches are checked.  Erasing the head
\* of an empty list is undefined: the thread is taken to end there.
ProcessFinish ==
    /\ manager.pc \in {"added", "failed"}
    /\ ~PendingWriteLocked
    /\ LET nextPending == NewPendingBlockData(manager.hash, TRUE)
       IN  IF Len(mPendingBlocks) = 0
           THEN Step(State, [manager EXCEPT !.pc = "undefined"], connection,
                     mProcessMutex, "process", manager.hash)
           ELSE IF manager.pc = "added"
           THEN Step(RemovePending(State, nextPending), Idle, connection,
                     mProcessMutex, "process", manager.hash)
           ELSE Step(CheckBranches(ClearPending(State, nextPending)).c, Idle,
                     connection, mProcessMutex, "process", manager.hash)

\* the blocks the connection thread receives
ThreadHashes == {"A1", "A2", "B1"}

\* addPendingBlock up to the unlock of mPendingLock
AddBegin ==
    /\ connection.pc = "idle"
    /\ Len(mBranches) < MaxBranches
    /\ Len(mBlackListBlocks) < MaxBlackListed
    /\ \E hash \in ThreadHashes, full \in BOOLEAN :
          LET a == AddPendingCore(State, hash, full)
          IN  /\ a.c # State
              /\ Step(a.c, manager,
                      IF a.branchesUpdated THEN [pc |-> "check", hash |-> hash]
                      ELSE Idle,
                      mProcessMutex, "addPendingBlock", hash)

\* checkBranches up to the call of revert
CheckScan ==
    /\ connection.pc = "check"
    /\ IF Len(mBranches) = 0
       THEN Step(State, manager, Idle, mProcessMutex, "checkBranches", connection.hash)
       ELSE LET scan == ScanBranches(State, mBranches, <<>>, 0)
                c0   == [State EXCEPT !.mBranches = scan.kept]
            IN  IF scan.longest = 0
                THEN Step(c0, manager, Idle, mProcessMutex, "checkBranches",
                          connection.hash)
                ELSE Step(ClearForActivation(c0), manager,
                          [ pc      |-> "revert",
                            hash    |-> connection.hash,
                            longest |-> scan.longest,
                            pHeight |-> scan.kept[scan.longest].height - 1,
                            saved   |-> SaveMainBranch(c0, scan.kept[scan.longest]),
                            undone  |-> 0 ],
                          mProcessMutex, "checkBranches", connection.hash)

\* one iteration of the loop of revert, called by checkBranches; after the
\* last one the rest of revert and of checkBranches
RevertStep ==
    /\ connection.pc = "revert"
    /\ IF Height(State) >= connection.pHeight /\ ~GetBlockOk(State, Height(State))
       THEN Step(State, manager, Idle, mProcessMutex, "revertFailed", connection.hash)
       ELSE IF Height(State) > connection.pHeight
       THEN Step(RevertBlock(State, GetBlock(State, Height(State))), manager,
                 [connection EXCEPT !.undone = @ + 1],
                 mProcessMutex, "revert", GetBlock(State, Height(State)))
       ELSE LET c1 == IF Height(State) = connection.pHeight
                      THEN [State EXCEPT !.mLastBlockHash =
                                            GetBlock(State, Height(State))]
                      ELSE State
                f  == RevertFinish(c1, connection.pHeight)
            IN  IF ~f.ok
                THEN Step(f.c, manager, Idle, mProcessMutex, "revertFailed",
                          connection.hash)
                ELSE Step(ActivateBranch(f.c, connection.longest, connection.saved),
                          manager, Idle, mProcessMutex, "activated", connection.hash)

\* requestStop(), from any other thread
DoRequestStop ==
    /\ ~mStop
    /\ Step([State EXCEPT !.mStop = TRUE], manager, connection, mProcessMutex,
            "requestStop", EmptyHash)

NextThreads ==
    \/ ProcessBegin \/ ProcessValidate \/ ProcessLink \/ ProcessFinish
    \/ AddBegin \/ CheckScan \/ RevertStep
    \/ DoRequestStop

SpecThreads == Init /\ [][NextThreads]_vars

(***************************************************************************)
(* Requests of blocks by nodes, with the clock: headers and blocks are     *)
(* submitted, blocks are marked for a node and released, time passes.      *)
(***************************************************************************)
Requested(c, op, hash, times) ==
    /\ Install(c)
    /\ requestedTime' = times
    /\ last' = [op |-> op, hash |-> hash, full |-> FALSE, result |-> "",
                activated |-> FALSE]
    /\ UNCHANGED <<now, call, faults, reorg, threads>>

\* the headers and blocks of two successors of the genesis block arrive
DoAddRequested ==
    \E hash \in {"A1", "A2"}, full \in BOOLEAN : SubmitBlock(hash, full)

\* markBlocksForNode for one hash of the pending list
DoMarkAt ==
    \E k \in 1..Len(mPendingBlocks), node \in 1..NumNodes :
        LET hash == mPendingBlocks[k].hash
        IN  Requested(MarkBlocksForNode(State, hash, node), "markBlocksForNode",
                      hash, [requestedTime EXCEPT ![hash] = now])

DoReleaseBlocksForNode ==
    \E node \in 1..NumNodes :
        /\ ReleaseBlocksForNode(State, node) # State
        /\ Requested(ReleaseBlocksForNode(State, node), "releaseBlocksForNode",
                     EmptyHash,
                     [hash \in Hashes |->
                         IF \E k \in 1..Len(mPendingBlocks) :
                               /\ mPendingBlocks[k].hash = hash
                               /\ ~mPendingBlocks[k].full
                               /\ mPendingBlocks[k].requestingNode = node
                         THEN 0 ELSE requestedTime[hash]])

\* time passes
DoTick ==
    /\ now < MaxTime
    /\ now' = now + TickSeconds
    /\ UNCHANGED <<members, threads, requestedTime, call, faults, last, reorg>>

NextRequests ==
    DoAddRequested \/ DoMarkAt \/ DoReleaseBlocksForNode \/ DoTick

SpecRequests == Init /\ [][NextRequests]_vars

(***************************************************************************)
(* Chain::blockHeight and Chain::getBlockHashes.  mBlockHashes[h + 1] is   *)
(* the hash at height h.  The loop of getBlockHashes reads                 *)
(* mBlockHashes[hashHeight] without a test against the size of the         *)
(* vector: a read beyond the last hash is undefined, and either ends the   *)
(* program or yields whatever the memory behind the vector holds.          *)
(***************************************************************************)
MaxHashCount == 3

\* what the memory behind the last hash may hold: the hash of a block that
\* was reverted, or no hash at all
BeyondValues == {"A1", "?"}

BlockHeight(c, hash) ==
    IF hash = EmptyHash THEN 0 - 1
    ELSE IF BlockInChain(c, hash)
    THEN c.mBlockLookup[CHOOSE i \in 1..Len(c.mBlockLookup) :
                            /\ c.mBlockLookup[i].hash = hash
                            /\ \A j \in 1..(i - 1) : c.mBlockLookup[j].hash # hash].height
    ELSE IF \E k \in 1..Len(c.mPendingBlocks) : c.mPendingBlocks[k].hash = hash
    THEN Height(c) + (CHOOSE k \in 1..Len(c.mPendingBlocks) :
                          /\ c.mPendingBlocks[k].hash = hash
                          /\ \A j \in 1..(k - 1) : c.mPendingBlocks[j].hash # hash)
    ELSE 0 - 1

\* getBlockHashes(pHashes, pStartingHash, pCount); beyond gives what each
\* read behind the last hash yields, crash tells that the first of them
\* ends the program
GetBlockHashes(c, pStartingHash, pCount, beyond, crash) ==
    LET hashHeight == IF pStartingHash = EmptyHash THEN 0
                      ELSE BlockHeight(c, pStartingHash)
        size == Len(c.mBlockHashes)
        inside == IF hashHeight >= size THEN 0
                  ELSE IF size - hashHeight < pCount THEN size - hashHeight
                  ELSE pCount
    IN  IF hashHeight = 0 - 1
        THEN [result |-> "false", hashes |-> <<>>, height |-> hashHeight, beyond |-> 0]
        ELSE IF inside < pCount /\ crash
        THEN [result |-> "crashed",
              hashes |-> [k \in 1..inside |-> c.mBlockHashes[hashHeight + k]],
              height |-> hashHeight, beyond |-> 1]
        ELSE [result |-> IF pCount > 0 THEN "true" ELSE "false",
              hashes |-> [k \in 1..pCount |->
                             IF hashHeight + k <= size
                             THEN c.mBlockHashes[hashHeight + k]
                             ELSE beyond[k - inside]],
              height |-> hashHeight, beyond |-> pCount - inside]

\* blocks of the chain A arrive and are processed until a node asks
DoAddBefore ==
    /\ call = NoCall
    /\ \E hash \in {"A1", "A2", "B1"}, full \in BOOLEAN : SubmitBlock(hash, full)

DoProcessBefore == call = NoCall /\ DoProcess

\* a node asks for the hashes that follow a hash it knows
DoGetBlockHashes ==
    /\ call = NoCall
    /\ \E start \in {EmptyHash, Genesis, "A1", "A2", "B2"}, count \in 0..MaxHashCount,
          crash \in BOOLEAN, beyond \in [1..MaxHashCount -> BeyondValues] :
          call' = [fn |-> "getBlockHashes", start |-> start, count |-> count]
                  @@ GetBlockHashes(State, start, count, beyond, crash)
    /\ UNCHANGED <<members, threads, now, requestedTime, faults, last, reorg>>

NextHashes == DoAddBefore \/ DoProcessBefore \/ DoGetBlockHashes

SpecHashes == Init /\ [][NextHashes]_vars

(***************************************************************************)
(* The threads of the nodes: each asks getBlocksNeeded for hashes and then *)
(* markBlocksForNode for what it was given, both under the read lock of    *)
(* mPendingLock, which any number of threads hold at a time; between the   *)
(* two calls the lock is free.  call.needed is the list a node holds       *)
(* between the two calls, call.assigned the blocks it was told to          *)
(* download and has not yet delivered.                                     *)
(***************************************************************************)
NumPeers == 2
Peers == 1..NumPeers

InitPeers ==
    /\ InitMembers(Loaded)
    /\ faults = 0
    /\ call = [fn |-> "nodes", needed |-> [n \in Peers |-> <<>>],
               assigned |-> [n \in Peers |-> {}]]

\* a header arrives
DoAddHeader ==
    \E hash \in {"A1", "A2"} : SubmitBlock(hash, FALSE)

\* a node calls getBlocksNeeded
DoGetBlocksNeeded ==
    \E n \in Peers, count \in 1..MaxCount :
        /\ call.needed[n] = <<>>
        /\ GetBlocksNeeded(State, count, FALSE) # <<>>
        /\ call' = [call EXCEPT !.needed[n] = GetBlocksNeeded(State, count, FALSE)]
        /\ UNCHANGED <<members, threads, now, requestedTime, faults, last, reorg>>

RECURSIVE MarkAll(_, _, _)
\* the loop of markBlocksForNode over pHashes
MarkAll(c, hashes, node) ==
    IF hashes = <<>> THEN c
    ELSE MarkAll(MarkBlocksForNode(c, Head(hashes), node), Tail(hashes), node)

\* the node calls markBlocksForNode with the list it was given
DoMarkNeeded ==
    \E n \in Peers :
        /\ call.needed[n] # <<>>
        /\ Install(MarkAll(State, call.needed[n], n))
        /\ requestedTime' = [hash \in DOMAIN requestedTime |->
                                IF /\ \E k \in 1..Len(call.needed[n]) : call.needed[n][k] = hash
                                   /\ IndexOfHash(mPendingBlocks, hash) # 0
                                THEN now ELSE requestedTime[hash]]
        /\ call' = [call EXCEPT !.needed[n] = <<>>,
                                !.assigned[n] = @ \cup {call.needed[n][k] :
                                                          k \in 1..Len(call.needed[n])}]
        /\ last' = [op |-> "markBlocksForNode", hash |-> Head(call.needed[n]),
                    full |-> FALSE, result |-> "", activated |-> FALSE]
        /\ UNCHANGED <<now, faults, reorg, threads>>

\* a node delivers a block it was told to download
DoDeliver ==
    \E n \in Peers :
        \E hash \in call.assigned[n] :
            LET r == AddPendingBlock(State, hash, TRUE)
            IN  /\ Install(r.c)
                /\ call' = [call EXCEPT !.assigned[n] = @ \ {hash}]
                /\ last' = [op |-> "addPendingBlock", hash |-> hash, full |-> TRUE,
                            result |-> r.rule, activated |-> r.check.activated # <<>>]
                /\ reorg' = Track(reorg, State, Len(mPendingBlocks), r.check, "")
                /\ UNCHANGED <<now, requestedTime, faults, threads>>

NextPeers == DoAddHeader \/ DoGetBlocksNeeded \/ DoMarkNeeded \/ DoDeliver

SpecPeers == InitPeers /\ [][NextPeers]_vars

(***************************************************************************)
(* The locks of the chain.  An operation is the sequence of its lock and   *)
(* unlock statements, in the order of the code, with the statements        *)
(* between them that tell which branch the code takes: the hashes on the   *)
(* chain above the genesis block (chain), the hashes to announce           *)
(* (mBlocksToAnnounce), mAnnounceBlock and mIsInSync.  mPendingLock is a   *)
(* readers lock, mProcessMutex, the lock of a block file and the mutex of  *)
(* a bucket of mBlockLookup are mutexes; none can be taken twice by one    *)
(* thread.  No operation holds two file locks or two bucket mutexes at a   *)
(* time, so one of each stands for all.                                    *)
(***************************************************************************)
MaxBlocks == 2

LockThreads == {"manager", "connection", "node", "query"}

Statement(do, on) ==
    [do |-> do, on |-> on, hash |-> 0, found |-> <<>>, missing |-> <<>>]

\* the loop over the bucket in blockHeight: what follows depends on whether
\* the hash is in mBlockLookup
Find(hash, found, missing) ==
    [do |-> "find", on |-> "bucket", hash |-> hash, found |-> found,
     missing |-> missing]

\* Chain::getBlock(height, block)
GetBlockAt == <<Statement("lock", "file"), Statement("unlock", "file")>>

\* Chain::blockHeight(hash), followed by found or by missing
BlockHeightThen(hash, found, missing) ==
    << Statement("lock", "bucket"),
       Find(hash,
            <<Statement("unlock", "bucket")>> \o found,
            <<Statement("unlock", "bucket"), Statement("readLock", "pending"),
              Statement("readUnlock", "pending")>> \o missing) >>

\* Chain::getBlock(hash, block): blockHeight, then getBlock(height, block)
GetBlockOf(hash, then) == BlockHeightThen(hash, GetBlockAt \o then, then)

\* Chain::processBlock: the block is added, is refused before the block
\* file is touched, or the block file cannot be created
ProcessBlockLocks(outcome, hash) ==
    CASE outcome = "added" ->
           << Statement("lock", "process"),
              Statement("lock", "file"), Statement("unlock", "file"),
              Statement("lock", "bucket"),
              [Statement("append", "chain") EXCEPT !.hash = hash],
              Statement("unlock", "bucket"),
              Statement("unlock", "process") >>
      [] outcome = "invalid" ->
           << Statement("lock", "process"), Statement("unlock", "process") >>
      [] outcome = "createFailed" ->
           << Statement("lock", "process"), Statement("lock", "file"),
              Statement("unlock", "process") >>

RECURSIVE RevertLocks(_)
\* Chain::revert for depth blocks above pHeight, then revertBlockFileHeight
RevertLocks(depth) ==
    IF depth = 0
    THEN GetBlockAt \o <<Statement("lock", "file"), Statement("unlock", "file")>>
    ELSE GetBlockAt
         \o << Statement("lock", "bucket"), Statement("remove", "chain"),
               Statement("unlock", "bucket") >>
         \o RevertLocks(depth - 1)

RECURSIVE ReadLocks(_)
\* checkBranches reads the blocks of the main chain above the branch
ReadLocks(depth) == IF depth = 0 THEN <<>> ELSE GetBlockAt \o ReadLocks(depth - 1)

\* Chain::checkBranches: depth is the number of blocks the activation
\* reverts, -1 when no branch has more work
CheckBranchesLocks(depth) ==
    IF depth < 0
    THEN <<Statement("writeLock", "pending"), Statement("writeUnlock", "pending")>>
    ELSE <<Statement("writeLock", "pending")>>
         \o ReadLocks(depth) \o RevertLocks(depth)
         \o <<Statement("writeUnlock", "pending")>>

\* Chain::process: the head of the pending list is missing or a header,
\* or processBlock is called with it
ProcessLocks(outcome, hash, inSync) ==
    << Statement("readLock", "pending"), Statement("readUnlock", "pending") >>
    \o (IF outcome = "none"
       THEN <<Statement("lock", "file"), Statement("unlock", "file")>>
       ELSE IF outcome = "added"
       THEN ProcessBlockLocks(outcome, hash)
            \o << Statement("writeLock", "pending"),
                  [Statement("announce", IF inSync THEN "sync" ELSE "") EXCEPT
                      !.hash = hash],
                  Statement("writeUnlock", "pending") >>
       ELSE ProcessBlockLocks(outcome, hash)
            \o << Statement("lock", "file"), Statement("unlock", "file"),
                  Statement("writeLock", "pending"),
                  Statement("writeUnlock", "pending") >>
            \o CheckBranchesLocks(0 - 1))

\* Chain::addPendingBlock, with checkBranches when a branch was updated
AddPendingBlockLocks(branchesUpdated, depth) ==
    << Statement("writeLock", "pending"), Statement("writeUnlock", "pending") >>
    \o (IF branchesUpdated THEN CheckBranchesLocks(depth) ELSE <<>>)

\* Chain::blockToAnnounce: take decides with mBlocksToAnnounce and
\* mAnnounceBlock what follows
BlockToAnnounceLocks ==
    << Statement("writeLock", "pending"), Statement("take", "announce") >>

\* Chain::getReverseBlockHashes
GetReverseBlockHashesLocks ==
    << Statement("lock", "process"), Statement("unlock", "process") >>

LockCall(createFails) ==
    [fn |-> "locks", createFails |-> createFails,
     chain |-> <<>>, nextHash |-> 1,
     mBlocksToAnnounce |-> <<>>, mAnnounceBlock |-> 0, mIsInSync |-> FALSE,
     writer |-> "", readers |-> {},
     holder |-> [l \in {"process", "file", "bucket"} |-> ""],
     program |-> [t \in LockThreads |-> <<>>]]

InitLocks ==
    /\ InitMembers(Loaded)
    /\ faults = 0
    /\ call \in {LockCall(f) : f \in BOOLEAN}

\* the threads that hold the lock the next statement of t asks for in a
\* way that keeps t waiting
Blockers(k, t) ==
    IF k.program[t] = <<>> THEN {}
    ELSE LET s == Head(k.program[t])
         IN  CASE s.do = "lock" -> {k.holder[s.on]} \ {""}
               [] s.do = "readLock" -> {k.writer} \ {""}
               [] s.do = "writeLock" -> ({k.writer} \ {""}) \cup k.readers
               [] OTHER -> {}

\* thread t begins an operation
DoBegin ==
    /\ call.fn = "locks"
    /\ \E t \in LockThreads :
          /\ call.program[t] = <<>>
          /\ \E p \in
                CASE t = "manager" ->
                       {ProcessLocks("none", 0, FALSE), ProcessLocks("invalid", 0, FALSE)}
                       \cup (IF call.nextHash <= MaxBlocks
                             THEN {ProcessLocks("added", call.nextHash, s) : s \in BOOLEAN}
                             ELSE {})
                       \cup (IF call.createFails
                             THEN {ProcessLocks("createFailed", 0, FALSE)} ELSE {})
                  [] t = "connection" ->
                       {AddPendingBlockLocks(FALSE, 0), AddPendingBlockLocks(TRUE, 0 - 1)}
                       \cup {AddPendingBlockLocks(TRUE, d) : d \in 0..Len(call.chain)}
                  [] t = "node" -> {BlockToAnnounceLocks}
                  [] t = "query" ->
                       {GetReverseBlockHashesLocks, GetBlockAt}
                       \cup {BlockHeightThen(h, <<>>, <<>>) : h \in 1..MaxBlocks} :
                call' = [call EXCEPT !.program[t] = p]
    /\ UNCHANGED <<members, threads, now, requestedTime, faults, last, reorg>>

\* thread t runs its next statement
Statements(k, t) ==
    LET s == Head(k.program[t])
        rest == Tail(k.program[t])
        next == [k EXCEPT !.program[t] = rest]
    IN  CASE s.do = "lock" -> [next EXCEPT !.holder[s.on] = t]
          [] s.do = "unlock" -> [next EXCEPT !.holder[s.on] = ""]
          [] s.do = "readLock" -> [next EXCEPT !.readers = @ \cup {t}]
          [] s.do = "readUnlock" -> [next EXCEPT !.readers = @ \ {t}]
          [] s.do = "writeLock" -> [next EXCEPT !.writer = t]
          [] s.do = "writeUnlock" -> [next EXCEPT !.writer = ""]
          [] s.do = "append" -> [next EXCEPT !.chain = Append(@, s.hash),
                                             !.nextHash = s.hash + 1]
          [] s.do = "remove" ->
               [next EXCEPT !.chain = IF @ = <<>> THEN @ ELSE SubSeq(@, 1, Len(@) - 1)]
          [] s.do = "announce" ->
               LET inSync == k.mIsInSync \/ s.on = "sync"
               IN  [next EXCEPT !.mIsInSync = inSync,
                                !.mBlocksToAnnounce =
                                    IF inSync THEN Append(@, s.hash) ELSE @,
                                !.mAnnounceBlock =
                                    IF inSync /\ @ = 0 THEN s.hash ELSE @]
          [] s.do = "take" ->
               IF k.mBlocksToAnnounce = <<>>
               THEN [next EXCEPT !.program[t] = <<Statement("writeUnlock", "pending")>>]
               ELSE IF k.mAnnounceBlock = Head(k.mBlocksToAnnounce)
               THEN [next EXCEPT !.mBlocksToAnnounce = Tail(@),
                                 !.mAnnounceBlock = 0,
                                 !.program[t] = <<Statement("writeUnlock", "pending")>>]
               ELSE [next EXCEPT !.mBlocksToAnnounce = Tail(@),
                                 !.program[t] =
                                     GetBlockOf(Head(k.mBlocksToAnnounce),
                                                <<Statement("writeUnlock", "pending")>>)]
          [] s.do = "find" ->
               [next EXCEPT !.program[t] =
                   IF \E i \in 1..Len(k.chain) : k.chain[i] = s.hash
                   THEN s.found ELSE s.missing]

DoStatement ==
    /\ call.fn = "locks"
    /\ \E t \in LockThreads :
          /\ call.program[t] # <<>>
          /\ Blockers(call, t) = {}
          /\ call' = Statements(call, t)
    /\ UNCHANGED <<members, threads, now, requestedTime, faults, last, reorg>>

NextLocks == DoBegin \/ DoStatement

SpecLocks == InitLocks /\ [][NextLocks]_vars




(***************************************************************************)
(* updateTargetBits on its own: what it reads from mBlockStats and mForks  *)
(* is drawn from the sets below (heights around the limits 1, 7, 146 and   *)
(* the retarget period; median past times around the start of the Cash     *)
(* DAA; time spans around the limits of the rules).                        *)
(***************************************************************************)
TargetHeights == {1, 5, 8, 100, 147, RETARGET_PERIOD, 2 * RETARGET_PERIOD}
MedianTimes == {1510600000, 1510600001}
MedianSpans == {43199, 43200}
DaaSpans == {-600, 43199, 43200, 86400, 172800, 172801}
DaaWorks == {144, 288}
RetargetSpans == {604800, 1209600, 2419200}
TargetBitsValues == {MaxTargetBits, HardTargetBits}

TargetViews ==
    { [ height |-> h, cashActive |-> cash, mtp |-> mtp, mtp6 |-> mtp - d6,
        lastTime |-> 1510000000, firstTime |-> 1510000000 - d, work |-> w,
        lastBlockTime |-> 1510000000, lastAdjustmentTime |-> 1510000000 - span,
        lastTargetBits |-> b ] :
      h \in TargetHeights, cash \in BOOLEAN, mtp \in MedianTimes,
      d6 \in MedianSpans, d \in DaaSpans, w \in DaaWorks,
      span \in RetargetSpans, b \in TargetBitsValues }

InitTarget ==
    /\ InitMembers(Loaded)
    /\ faults = 0
    /\ call \in { [fn |-> "updateTargetBits", view |-> v, prior |-> b,
                   done |-> FALSE, result |-> 0] :
                  v \in TargetViews, b \in TargetBitsValues }

DoUpdateTargetBits ==
    /\ call.fn = "updateTargetBits"
    /\ ~call.done
    /\ call' = [call EXCEPT !.done = TRUE,
                            !.result = ComputeTargetBits(call.view, call.prior)]
    /\ UNCHANGED <<members, threads, now, requestedTime, faults, last, reorg>>

SpecTarget == InitTarget /\ [][DoUpdateTargetBits]_vars

(***************************************************************************)
(* A test network chain loaded from block files that end with a block of   *)
(* the hard target (as the first block after a retarget is; the blocks of  *)
(* the period before it are left out), to which blocks of the maximum      *)
(* target and a heavier branch are submitted.                              *)
(***************************************************************************)
TestnetStart ==
    LoadChain([Constructed EXCEPT !.network = "TESTNET"], <<Genesis, "A1", "H2">>)

InitTestnet == InitAt(TestnetStart) /\ faults = 0

DoAddMore ==
    \E hash \in MoreHashes \cup {"A2"} : SubmitBlock(hash, TRUE)

NextTestnet == DoAddMore \/ DoProcess

SpecTestnet == InitTestnet /\ [][NextTestnet]_vars

(***************************************************************************)
(* ScriptInterpreter (interpreter.cpp).  A script is a sequence of bytes,  *)
(* a stack item a sequence of bytes; the top of a stack is its last        *)
(* element.                                                                *)
(***************************************************************************)
OP_0 == 0
MAX_SINGLE_BYTE_PUSH_DATA_CODE == 75
OP_RESERVED == 80
OP_1 == 81
OP_2 == 82
OP_3 == 83
OP_16 == 96
OP_NOP == 97
OP_IF == 99
OP_NOTIF == 100
OP_ELSE == 103
OP_ENDIF == 104
OP_VERIFY == 105
OP_RETURN == 106
OP_DUP == 118
OP_EQUAL == 135
OP_EQUALVERIFY == 136
OP_HASH160 == 169
OP_CHECKSIG == 172
OP_CHECKSIGVERIFY == 173
OP_CHECKMULTISIG == 174
OP_CHECKMULTISIGVERIFY == 175
\* OP_CAT, OP_SUBSTR, OP_LEFT, OP_RIGHT, OP_INVERT, OP_AND, OP_OR, OP_XOR,
\* OP_2MUL, OP_2DIV, OP_MUL, OP_DIV, OP_MOD, OP_LSHIFT, OP_RSHIFT
DisabledOpCodes ==
    {126, 127, 128, 129, 131, 132, 133, 134, 141, 142, 149, 150, 151, 152, 153}

\* ScriptInterpreter::clear, and the script process() is called with
NewInterpreter(script) ==
    [script |-> script, readOffset |-> 0, mStack |-> <<>>, mIfStack |-> <<>>,
     mValid |-> TRUE, mVerified |-> TRUE, returned |-> "running"]

Remaining(i) == Len(i.script) - i.readOffset

BufferIsZero(buffer) == \A k \in 1..Len(buffer) : buffer[k] = 0

\* true when no entry of the conditional stack is false
IfStackTrue(i) == \A k \in 1..Len(i.mIfStack) : i.mIfStack[k]

\* pSize is an unsigned int: a negative number stands for 2^32 + pSize
CheckStackSize(i, pSize) == pSize >= 0 /\ Len(i.mStack) >= pSize

Top(i) == i.mStack[Len(i.mStack)]
PushItem(i, item) == [i EXCEPT !.mStack = Append(@, item)]
PopItems(i, n) == [i EXCEPT !.mStack = SubSeq(@, 1, Len(@) - n)]

\* mValid = false; return false
ReturnInvalid(i) == [i EXCEPT !.mValid = FALSE, !.returned = "false"]
\* mVerified = false; return true
ReturnUnverified(i) == [i EXCEPT !.mVerified = FALSE, !.returned = "true"]

\* the value popInteger reads from an item: little endian, the high bit of
\* the last byte is the sign
RECURSIVE Magnitude(_)
Magnitude(item) ==
    IF item = <<>> THEN 0
    ELSE IF Len(item) = 1 THEN item[1] % 128
    ELSE item[1] + 256 * Magnitude(Tail(item))

IntegerOf(item) ==
    IF item = <<>> THEN 0
    ELSE IF item[Len(item)] >= 128 THEN 0 - Magnitude(item) ELSE Magnitude(item)

\* SHA256 then RIPEMD160 of the data: a one-to-one scrambling of the bytes
Hash160(data) == [k \in 1..Len(data) |-> 255 - data[k]]

\* the signature made with the private key of public key <<k>> over the
\* hash of the spending transaction is <<k + 16>>
CheckSignature(publicKey, signature) ==
    /\ Len(publicKey) = 1
    /\ Len(signature) = 1
    /\ signature[1] = publicKey[1] + 16

\* a plausible slip: a failed OP_EQUALVERIFY carries on as if it had matched
OpEqualNoVerify(i, opCode) ==
    IF ~IfStackTrue(i) THEN i
    ELSE IF ~CheckStackSize(i, 2) THEN ReturnInvalid(i)
    ELSE LET matching == Top(i) = i.mStack[Len(i.mStack) - 1]
             j == PopItems(i, 2)
         IN  IF opCode = OP_EQUAL
             THEN PushItem(j, IF matching THEN <<1>> ELSE <<>>)
             ELSE j

\* case OP_EQUAL, OP_EQUALVERIFY
OpEqual(i, opCode) ==
    IF ~IfStackTrue(i) THEN i
    ELSE IF ~CheckStackSize(i, 2) THEN ReturnInvalid(i)
    ELSE LET matching == Top(i) = i.mStack[Len(i.mStack) - 1]
             j == PopItems(i, 2)
         IN  IF matching
             THEN IF opCode = OP_EQUAL THEN PushItem(j, <<1>>) ELSE j
             ELSE IF opCode = OP_EQUAL THEN PushItem(j, <<>>)
                  ELSE ReturnUnverified(j)

\* case OP_CHECKSIG, OP_CHECKSIGVERIFY
OpCheckSig(i, opCode) ==
    IF ~IfStackTrue(i) THEN i
    ELSE IF ~CheckStackSize(i, 2) THEN ReturnInvalid(i)
    ELSE LET publicKey == Top(i)
             signature == i.mStack[Len(i.mStack) - 1]
             j == PopItems(i, 2)
         IN  IF CheckSignature(publicKey, signature)
             THEN IF opCode = OP_CHECKSIG THEN PushItem(j, <<1>>) ELSE j
             ELSE IF opCode = OP_CHECKSIG THEN PushItem(j, <<>>)
                  ELSE ReturnUnverified(j)

\* the loop of OP_CHECKMULTISIG over the signatures from signature s on, the
\* keys before publicKeyOffset being used up: TRUE when a signature matches
\* none of the keys left
RECURSIVE SignaturesFailed(_, _, _, _)
SignaturesFailed(publicKeys, signatures, s, publicKeyOffset) ==
    IF s > Len(signatures) THEN FALSE
    ELSE LET matches == {k \in publicKeyOffset..Len(publicKeys) :
                            CheckSignature(publicKeys[k], signatures[s])}
         IN  IF matches = {} THEN TRUE
             ELSE LET k == CHOOSE m \in matches : \A n \in matches : m <= n
                  IN  SignaturesFailed(publicKeys, signatures, s + 1, k + 1)

\* a plausible slip: every signature is tried against every key again
SignaturesFailedAnyKey(publicKeys, signatures, s, publicKeyOffset) ==
    \E t \in s..Len(signatures) :
        \A k \in 1..Len(publicKeys) : ~CheckSignature(publicKeys[k], signatures[t])

\* case OP_CHECKMULTISIG, OP_CHECKMULTISIGVERIFY
OpCheckMultiSig(i, opCode) ==
    IF ~IfStackTrue(i) THEN i
    ELSE IF ~CheckStackSize(i, 4) THEN ReturnInvalid(i)
    ELSE
      LET publicKeyCount == IntegerOf(Top(i))
          a == PopItems(i, 1)
      IN  IF ~CheckStackSize(a, publicKeyCount) THEN ReturnInvalid(a)
          ELSE
            LET publicKeys == [k \in 1..publicKeyCount |->
                                  a.mStack[Len(a.mStack) - k + 1]]
                b == PopItems(a, publicKeyCount)
                signatureCount == IntegerOf(Top(b))
                c == PopItems(b, 1)
            IN  IF ~CheckStackSize(c, signatureCount + 1) THEN ReturnInvalid(c)
                ELSE
                  LET signatures == [k \in 1..signatureCount |->
                                        c.mStack[Len(c.mStack) - k + 1]]
                      d == PopItems(c, signatureCount + 1)
                      failed == SignaturesFailed(publicKeys, signatures, 1, 1)
                  IN  IF failed
                      THEN IF opCode = OP_CHECKMULTISIG THEN PushItem(d, <<>>)
                           ELSE ReturnUnverified(d)
                      ELSE IF opCode = OP_CHECKMULTISIG THEN PushItem(d, <<1>>)
                           ELSE d

\* a plausible slip: a disabled op code in a branch that is not executed is
\* passed over
OpDisabledWhenExecuted(i) == IF ~IfStackTrue(i) THEN i ELSE ReturnInvalid(i)

\* case OP_CAT ... OP_RSHIFT
OpDisabled(i) == ReturnInvalid(i)

\* the switch of process() on an op code that is no single byte push; of its
\* cases those of the op codes named above are modelled, and an op code
\* without a case does nothing
OpSwitch(i, opCode) ==
    CASE opCode = OP_NOP -> i
      [] opCode \in {OP_IF, OP_NOTIF} ->
            IF ~CheckStackSize(i, 1) THEN ReturnInvalid(i)
            ELSE IF IfStackTrue(i)
            THEN PopItems([i EXCEPT !.mIfStack =
                              Append(@, IF opCode = OP_IF
                                        THEN ~BufferIsZero(Top(i))
                                        ELSE BufferIsZero(Top(i)))], 1)
            ELSE [i EXCEPT !.mIfStack = Append(@, TRUE)]
      [] opCode = OP_ELSE ->
            IF Len(i.mIfStack) > 0
            THEN [i EXCEPT !.mIfStack[Len(i.mIfStack)] = ~@]
            ELSE ReturnInvalid(i)
      [] opCode = OP_ENDIF ->
            IF Len(i.mIfStack) > 0
            THEN [i EXCEPT !.mIfStack = SubSeq(@, 1, Len(@) - 1)]
            ELSE ReturnInvalid(i)
      [] opCode = OP_VERIFY ->
            IF ~IfStackTrue(i) THEN i
            ELSE IF ~CheckStackSize(i, 1) THEN ReturnInvalid(i)
            ELSE IF BufferIsZero(Top(i)) THEN ReturnUnverified(i)
            ELSE PopItems(i, 1)
      [] opCode = OP_RETURN ->
            IF ~IfStackTrue(i) THEN i ELSE ReturnUnverified(i)
      [] opCode \in {OP_EQUAL, OP_EQUALVERIFY} -> OpEqual(i, opCode)
      [] opCode = OP_HASH160 ->
            IF ~IfStackTrue(i) THEN i
            ELSE IF ~CheckStackSize(i, 1) THEN ReturnInvalid(i)
            ELSE PushItem(PopItems(i, 1), Hash160(Top(i)))
      [] opCode \in {OP_CHECKSIG, OP_CHECKSIGVERIFY} -> OpCheckSig(i, opCode)
      [] opCode \in {OP_CHECKMULTISIG, OP_CHECKMULTISIGVERIFY} ->
            OpCheckMultiSig(i, opCode)
      [] opCode >= OP_1 /\ opCode <= OP_16 ->
            IF ~IfStackTrue(i) THEN i ELSE PushItem(i, <<opCode - OP_1 + 1>>)
      [] opCode = OP_DUP ->
            IF ~IfStackTrue(i) THEN i
            ELSE IF ~CheckStackSize(i, 1) THEN ReturnInvalid(i)
            ELSE PushItem(i, Top(i))
      [] opCode \in DisabledOpCodes -> OpDisabled(i)
      [] opCode = OP_RESERVED ->
            IF ~IfStackTrue(i) THEN i ELSE ReturnInvalid(i)
      [] OTHER -> i

\* one pass of the loop of process(): the limits, then one op code
ProcessStep(i) ==
    IF Len(i.mStack) > 1000 THEN ReturnInvalid(i)
    ELSE IF Len(i.mIfStack) > 20 THEN ReturnInvalid(i)
    ELSE
      LET opCode == i.script[i.readOffset + 1]
          j == [i EXCEPT !.readOffset = @ + 1]
      IN  IF opCode = OP_0
          THEN IF ~IfStackTrue(j) THEN j ELSE PushItem(j, <<>>)
          ELSE IF opCode <= MAX_SINGLE_BYTE_PUSH_DATA_CODE
          THEN IF opCode > Remaining(j) THEN ReturnInvalid(j)
               ELSE IF ~IfStackTrue(j)
               THEN [j EXCEPT !.readOffset = @ + opCode]
               ELSE PushItem([j EXCEPT !.readOffset = @ + opCode],
                             SubSeq(j.script, j.readOffset + 1,
                                    j.readOffset + opCode))
          ELSE OpSwitch(j, opCode)

\* what process() returns: the value of a return inside the loop, or mValid
\* when the script is read to its end
ProcessReturns(i) ==
    IF i.returned = "running" THEN i.mValid ELSE i.returned = "true"

IsValid(i) == i.mValid

\* the script is verified when nothing marked it unverified and the top of
\* the stack is not zero
IsVerified(i) ==
    /\ i.mValid
    /\ i.mVerified
    /\ Len(i.mStack) > 0
    /\ ~BufferIsZero(Top(i))

\* the outcome of the evaluation of a pair of scripts
Outcome(i) ==
    IF ~IsValid(i) THEN "Invalid"
    ELSE IF IsVerified(i) THEN "Valid-Verified"
    ELSE "Valid-Unverified"

(***************************************************************************)
(* ScriptInterpreter::arithmeticWrite and arithmeticRead on a little       *)
(* endian system.  An int64_t is an integer of the model; the values the   *)
(* model writes are below 2^31 in magnitude, so the upper four bytes of    *)
(* the magnitude are zero.                                                 *)
(***************************************************************************)
RECURSIVE Pow256(_)
Pow256(k) == IF k = 0 THEN 1 ELSE 256 * Pow256(k - 1)

\* byte k of the int64_t value, byte 0 the least significant
Int64Byte(value, k) ==
    IF k > 3 THEN (IF value < 0 THEN 255 ELSE 0)
    ELSE (value \div Pow256(k)) % 256

\* the index of the first byte of bytes (0..7) that is not zero, 8 if none
SkipZeroBytes(bytes) ==
    IF \A i \in 0..7 : bytes[i] = 0 THEN 8
    ELSE CHOOSE i \in 0..7 : bytes[i] # 0 /\ \A j \in 0..(i - 1) : bytes[j] = 0

\* Endian::reverse, then pBuffer->write(bytes, 8 - startOffset)
WriteFrom(bytes, startOffset) == [k \in 1..(8 - startOffset) |-> bytes[8 - k]]

\* a plausible slip: the sign bit is put into the first byte also when its
\* top bit is taken, and no byte is prepended
ArithmeticWriteNoPrefix(pValue) ==
    LET negative == pValue < 0
        value == IF negative THEN 0 - pValue ELSE pValue
        bytes == [i \in 0..7 |-> Int64Byte(value, 7 - i)]
        startOffset == SkipZeroBytes(bytes)
    IN  IF startOffset = 8 THEN (IF negative THEN <<128>> ELSE <<>>)
        ELSE IF negative /\ bytes[startOffset] < 128
        THEN WriteFrom([bytes EXCEPT ![startOffset] = @ + 128], startOffset)
        ELSE WriteFrom(bytes, startOffset)

\* the bytes arithmeticWrite leaves in the buffer
ArithmeticWrite(pValue) ==
    LET negative == pValue < 0
        value == IF negative THEN 0 - pValue ELSE pValue
        \* memcpy and Endian::reverse: the most significant byte first
        bytes == [i \in 0..7 |-> Int64Byte(value, 7 - i)]
        startOffset == SkipZeroBytes(bytes)
    IN  IF startOffset = 8 THEN (IF negative THEN <<128>> ELSE <<>>)
        ELSE IF negative
        THEN IF bytes[startOffset] >= 128
             THEN IF startOffset = 0 THEN <<>>
                  ELSE WriteFrom([bytes EXCEPT ![startOffset - 1] = 128],
                                 startOffset - 1)
             ELSE WriteFrom([bytes EXCEPT ![startOffset] = @ + 128], startOffset)
        ELSE IF bytes[startOffset] >= 128
        THEN IF startOffset = 0 THEN <<>>
             ELSE WriteFrom([bytes EXCEPT ![startOffset - 1] = 0], startOffset - 1)
        ELSE WriteFrom(bytes, startOffset)

\* what arithmeticRead returns and leaves in pValue
ArithmeticRead(buffer) ==
    IF Len(buffer) > 8 THEN [ok |-> FALSE, value |-> 0]
    ELSE IF Len(buffer) = 0 THEN [ok |-> TRUE, value |-> 0]
    ELSE
      LET first == 8 - Len(buffer)
          \* the first byte read goes to bytes[7], the last to bytes[first]
          read == [i \in 0..7 |-> IF i >= first THEN buffer[8 - i] ELSE 0]
          negative == read[first] >= 128
          dropFirstByte == read[first] = 128 \/ read[first] = 0
          bytes == IF negative
                   THEN [read EXCEPT ![first] = IF @ = 128 THEN 0 ELSE @ - 128]
                   ELSE read
          startOffset == IF dropFirstByte THEN first + 1 ELSE first
          RECURSIVE Sum(_)
          Sum(i) == IF i > 7 THEN 0
                    ELSE (IF bytes[i] = 0 THEN 0 ELSE bytes[i] * Pow256(7 - i))
                         + Sum(i + 1)
          magnitude == Sum(0)
      IN  IF dropFirstByte /\ Len(buffer) > 5 THEN [ok |-> FALSE, value |-> 0]
          ELSE IF ~dropFirstByte /\ Len(buffer) > 4 THEN [ok |-> FALSE, value |-> 0]
          ELSE IF ~negative THEN [ok |-> TRUE, value |-> magnitude]
          \* pValue = -pValue, then the bytes from startOffset on are set to
          \* 0xff: they are 0xff already unless the magnitude is zero
          ELSE IF magnitude > 0 THEN [ok |-> TRUE, value |-> 0 - magnitude]
          ELSE IF startOffset = 8 THEN [ok |-> TRUE, value |-> 0]
          ELSE [ok |-> TRUE, value |-> 0 - Pow256(startOffset)]

\* the largest number of a script
MaxScriptNumber == 2147483647
\* the numbers from -SmallNumbers to SmallNumbers are written and read
SmallNumbers == 130
\* and the numbers up to NearPower from a power of 256, from half of one and
\* from the largest number
NearPower == 2

ArithmeticValues ==
    LET positive ==
            (0..SmallNumbers)
            \cup { Pow256(k) + d : k \in 1..3, d \in (0 - NearPower)..NearPower }
            \cup { (Pow256(k) \div 2) + d : k \in 1..3, d \in (0 - NearPower)..NearPower }
            \cup { MaxScriptNumber - d : d \in 0..NearPower }
    IN  positive \cup { 0 - v : v \in positive }

InitArithmetic ==
    /\ InitMembers(Loaded)
    /\ faults = 0
    /\ call \in { [fn |-> "arithmetic", value |-> v, done |-> FALSE,
                   written |-> <<>>, read |-> [ok |-> FALSE, value |-> 0]] :
                  v \in ArithmeticValues }

\* arithmeticWrite of the value, then arithmeticRead of the bytes written
DoArithmetic ==
    /\ call.fn = "arithmetic"
    /\ ~call.done
    /\ call' = [call EXCEPT !.done = TRUE,
                            !.written = ArithmeticWrite(call.value),
                            !.read = ArithmeticRead(ArithmeticWrite(call.value))]
    /\ UNCHANGED <<members, threads, now, requestedTime, faults, last, reorg>>

SpecArithmetic == InitArithmetic /\ [][DoArithmetic]_vars

(***************************************************************************)
(* The evaluation of a pair of scripts as Transaction::process runs it:    *)
(* the signature script of the input, then, on the same stacks, the script *)
(* of the output it spends.                                                *)
(***************************************************************************)
PushData(data) == <<Len(data)>> \o data

Key(k) == <<32 + k>>
SignatureOf(k) == <<48 + k>>
NumKeys == 3

P2PKHScript(h) ==
    <<OP_DUP, OP_HASH160>> \o PushData(h) \o <<OP_EQUALVERIFY, OP_CHECKSIG>>

P2PKHPairs ==
    { <<PushData(SignatureOf(s)) \o PushData(Key(k)), P2PKHScript(Hash160(Key(h)))>> :
        s \in 1..NumKeys, k \in 1..NumKeys, h \in 1..2 }

\* 2 of 3, 1 of 2 and 0 of 0 signatures
MultiSigPairs ==
    { <<<<OP_0>> \o PushData(SignatureOf(a)) \o PushData(SignatureOf(b)),
        <<OP_2>> \o PushData(Key(1)) \o PushData(Key(2)) \o PushData(Key(3))
          \o <<OP_3, op>>>> :
        a \in 1..NumKeys, b \in 1..NumKeys,
        op \in {OP_CHECKMULTISIG, OP_CHECKMULTISIGVERIFY} }
    \cup { <<<<OP_0>> \o PushData(SignatureOf(a)),
             <<OP_1>> \o PushData(Key(1)) \o PushData(Key(2))
               \o <<OP_2, OP_CHECKMULTISIG>>>> : a \in 1..NumKeys }
    \cup { <<<<OP_0>>, <<OP_0, OP_0, OP_CHECKMULTISIG>>>>,
           <<<<OP_1, OP_0>>, <<OP_0, OP_0, OP_CHECKMULTISIG>>>> }

\* a disabled op code in a branch that is or is not executed, behind a
\* return, inside pushed data, and a reserved op code for comparison
DisabledPairs ==
    { <<<<top>>, <<OP_IF, op, OP_ENDIF, OP_1>>>> :
        top \in {OP_0, OP_1}, op \in DisabledOpCodes \cup {OP_RESERVED, OP_NOP} }
    \cup { <<<<OP_1>>, <<OP_RETURN, op>>>> : op \in DisabledOpCodes }
    \cup { <<<<OP_0>>, <<OP_VERIFY, 126>>>>,
           <<<<OP_1>>, <<OP_VERIFY, 126>>>>,
           <<<<OP_1>>, PushData(<<126>>)>>,
           <<<<OP_1, OP_1>>, <<OP_EQUALVERIFY, 126>>>>,
           <<<<OP_1, OP_2>>, <<OP_EQUALVERIFY, 126>>>>,
           <<<<OP_1, OP_2>>, <<OP_EQUAL, OP_NOTIF, OP_1, OP_ELSE, 149, OP_ENDIF>>>> }

ScriptPairs == P2PKHPairs \cup MultiSigPairs \cup DisabledPairs

Larger(a, b) == IF a > b THEN a ELSE b

\* the call of Transaction::process on an input: the scripts, the
\* interpreter, and the largest sizes its stacks have had
ProcessCall(input, output) ==
    [fn |-> "process", input |-> input, output |-> output, stage |-> "input",
     interpreter |-> NewInterpreter(input), stackPeak |-> 0, ifStackPeak |-> 0]

InitScripts ==
    /\ InitMembers(Loaded)
    /\ faults = 0
    /\ call \in {ProcessCall(pair[1], pair[2]) : pair \in ScriptPairs}

Evaluating ==
    /\ call.fn = "process"
    /\ call.stage # "done"
    /\ call.interpreter.returned = "running"
    /\ Remaining(call.interpreter) > 0

\* one pass of the loop of process()
DoOpCode ==
    /\ Evaluating
    /\ LET i == ProcessStep(call.interpreter)
       IN  call' = [call EXCEPT !.interpreter = i,
                                !.stackPeak = Larger(@, Len(i.mStack)),
                                !.ifStackPeak = Larger(@, Len(i.mIfStack))]
    /\ UNCHANGED <<members, threads, now, requestedTime, faults, last, reorg>>

\* process() returns: the script of the output follows when the signature
\* script returned true
DoReturn ==
    /\ call.fn = "process"
    /\ call.stage # "done"
    /\ ~Evaluating
    /\ call' = IF call.stage = "input" /\ ProcessReturns(call.interpreter)
               THEN [call EXCEPT !.stage = "output",
                                 !.interpreter = [@ EXCEPT !.script = call.output,
                                                           !.readOffset = 0,
                                                           !.returned = "running"]]
               ELSE [call EXCEPT !.stage = "done"]
    /\ UNCHANGED <<members, threads, now, requestedTime, faults, last, reorg>>

NextScripts == DoOpCode \/ DoReturn

SpecScripts == InitScripts /\ [][NextScripts]_vars

(***************************************************************************)
(* Scripts that fill the stacks: pushes of the number 1, and conditionals  *)
(* that are opened and not closed, up to and beyond the limits of          *)
(* process().                                                              *)
(***************************************************************************)
Repeat(script, n) == [k \in 1..(n * Len(script)) |-> script[((k - 1) % Len(script)) + 1]]

\* how far beyond a limit the scripts go
MaxBeyond == 2

LimitPairs ==
    { <<<<OP_1>>, Repeat(<<OP_1>>, 1000 - 1 + n)>> : n \in 0..MaxBeyond }
    \cup { <<<<OP_1>>, Repeat(<<OP_1, OP_IF>>, 20 + n)>> : n \in 0..MaxBeyond }
    \cup { <<<<OP_1>>, Repeat(<<OP_1>>, 1000 - 2 + n) \o <<OP_DUP, OP_DUP>>>> :
             n \in 0..MaxBeyond }

InitLimits ==
    /\ InitMembers(Loaded)
    /\ faults = 0
    /\ call \in {ProcessCall(pair[1], pair[2]) : pair \in LimitPairs}

SpecLimits == InitLimits /\ [][NextScripts]_vars

(***************************************************************************)
(* The op codes that move items of the stack: OP_3DUP, OP_2SWAP, OP_PICK   *)
(* and OP_ROLL.  mStack is a std::list; an iterator moved before its       *)
(* first element does not point to an item, and what is read through it is *)
(* undefined: the program ends (crash), or the item is whatever the memory *)
(* holds (beyond).                                                         *)
(***************************************************************************)
OP_3DUP == 111
OP_2SWAP == 114
OP_PICK == 121
OP_ROLL == 122

StackOpCodes == {OP_3DUP, OP_2SWAP, OP_PICK, OP_ROLL}

\* what an iterator before the first element may yield
BeyondItems == {<<>>, <<170>>}

\* the program ends inside the op code
Crashed(i) == [i EXCEPT !.returned = "crashed"]

\* the item k places below the top (0: the top), or what lies before the
\* first element
ItemBack(i, k, beyond) ==
    IF k < Len(i.mStack) THEN i.mStack[Len(i.mStack) - k] ELSE beyond

Op3Dup(i, beyond, crash) ==
    IF ~IfStackTrue(i) THEN i
    ELSE IF ~CheckStackSize(i, 2) THEN ReturnInvalid(i)
    ELSE IF Len(i.mStack) < 3 /\ crash THEN Crashed(i)
    ELSE PushItem(PushItem(PushItem(i, ItemBack(i, 2, beyond)),
                           ItemBack(i, 1, beyond)),
                  ItemBack(i, 0, beyond))

Op2Swap(i, beyond, crash) ==
    IF ~IfStackTrue(i) THEN i
    ELSE IF ~CheckStackSize(i, 2) THEN ReturnInvalid(i)
    ELSE IF Len(i.mStack) < 4 /\ crash THEN Crashed(i)
    ELSE LET size == Len(i.mStack)
             itemTwo == ItemBack(i, 2, beyond)
             itemOne == ItemBack(i, 3, beyond)
             \* erase(one), erase(two): the items that are on the stack
             kept == SelectSeq([k \in 1..size |-> <<k, i.mStack[k]>>],
                               LAMBDA e : e[1] # size - 2 /\ e[1] # size - 3)
         IN  PushItem(PushItem([i EXCEPT !.mStack = [k \in 1..Len(kept) |-> kept[k][2]]],
                               itemOne),
                      itemTwo)

\* OP_PICK (roll FALSE) and OP_ROLL (roll TRUE)
OpPick(i, roll, beyond, crash) ==
    IF ~IfStackTrue(i) THEN i
    ELSE IF ~CheckStackSize(i, IF roll THEN 2 ELSE 1) THEN ReturnInvalid(i)
    ELSE IF ~ArithmeticRead(Top(i)).ok THEN ReturnInvalid(i)
    ELSE LET n == ArithmeticRead(Top(i)).value
             j == PopItems(i, 1)
             size == Len(j.mStack)
         IN  IF ~CheckStackSize(j, n) THEN ReturnInvalid(j)
             ELSE IF n >= size /\ crash THEN Crashed(j)
             ELSE IF ~roll \/ n >= size THEN PushItem(j, ItemBack(j, n, beyond))
             ELSE PushItem([j EXCEPT !.mStack =
                               SubSeq(@, 1, size - n - 1) \o SubSeq(@, size - n + 1, size)],
                           ItemBack(j, n, beyond))

OpStack(i, opCode, beyond, crash) ==
    CASE opCode = OP_3DUP -> Op3Dup(i, beyond, crash)
      [] opCode = OP_2SWAP -> Op2Swap(i, beyond, crash)
      [] opCode = OP_PICK -> OpPick(i, FALSE, beyond, crash)
      [] opCode = OP_ROLL -> OpPick(i, TRUE, beyond, crash)

\* one pass of the loop of process() for a script that holds these op codes
StackStep(i, beyond, crash) ==
    LET opCode == i.script[i.readOffset + 1]
    IN  IF Len(i.mStack) <= 1000 /\ Len(i.mIfStack) <= 20 /\ opCode \in StackOpCodes
        THEN OpStack([i EXCEPT !.readOffset = @ + 1], opCode, beyond, crash)
        ELSE ProcessStep(i)

MaxItems == 4

\* OP_1 .. OP_n
PushNumbers(n) == [k \in 1..n |-> OP_1 + k - 1]

StackPairs ==
    { <<PushNumbers(n), <<opCode>>>> :
          n \in 0..(MaxItems + 1), opCode \in {OP_3DUP, OP_2SWAP} }
    \cup { <<PushNumbers(n), <<back, opCode>>>> :
               n \in 0..MaxItems, back \in {OP_0} \cup {OP_1 + k : k \in 0..(MaxItems - 1)},
               opCode \in {OP_PICK, OP_ROLL} }
    \cup { <<PushNumbers(n), <<opCode>>>> : n \in 0..1, opCode \in {OP_PICK, OP_ROLL} }

InitStack ==
    /\ InitMembers(Loaded)
    /\ faults = 0
    /\ call \in {ProcessCall(pair[1], pair[2]) : pair \in StackPairs}

DoStackOpCode ==
    /\ Evaluating
    /\ \E beyond \in BeyondItems, crash \in BOOLEAN :
          LET i == StackStep(call.interpreter, beyond, crash)
          IN  call' = [call EXCEPT !.interpreter = i,
                                   !.stackPeak = Larger(@, Len(i.mStack)),
                                   !.ifStackPeak = Larger(@, Len(i.mIfStack))]
    /\ UNCHANGED <<members, threads, now, requestedTime, faults, last, reorg>>

NextStack == DoStackOpCode \/ DoReturn

SpecStack == InitStack /\ [][NextStack]_vars

(***************************************************************************)
(* Pairs of scripts with conditionals, closed and left open.               *)
(***************************************************************************)
ConditionalBodies ==
    {<<>>, <<OP_1>>, <<OP_0>>, <<OP_RETURN>>, <<OP_1, OP_ELSE, OP_0>>,
     <<OP_1, OP_IF, OP_1, OP_ENDIF>>, <<OP_1, OP_IF, OP_1>>}

ConditionalPairs ==
    { <<input, <<condition, open>> \o body \o close>> :
          input \in {<<OP_1>>, <<OP_1, OP_1, OP_IF>>, <<OP_1, OP_0, OP_NOTIF, OP_ENDIF>>},
          condition \in {OP_0, OP_1}, open \in {OP_IF, OP_NOTIF},
          body \in ConditionalBodies, close \in {<<>>, <<OP_ENDIF>>} }

InitConditionals ==
    /\ InitMembers(Loaded)
    /\ faults = 0
    /\ call \in {ProcessCall(pair[1], pair[2]) : pair \in ConditionalPairs}

SpecConditionals == InitConditionals /\ [][NextScripts]_vars



(***************************************************************************)
(* Transaction::process for a block of version 1.  The pool of unspent     *)
(* outputs holds NumOutpoints outputs, each locked to the hash of the      *)
(* first key; an amount is an int64_t, scaled to AmountModulus values.     *)
(* The width and the sign of mFee are declared in transaction.hpp: both a  *)
(* signed and an unsigned fee of the width of an amount are modelled.      *)
(***************************************************************************)
NumOutpoints == 3
AmountModulus == 16
MaxInputs == 3
MaxOutputs == 2

RECURSIVE RunToEnd(_)
\* the loop of process() up to its return
RunToEnd(i) ==
    IF i.returned = "running" /\ Remaining(i) > 0 THEN RunToEnd(ProcessStep(i))
    ELSE i

\* the four tests process() makes of the scripts of an input and of the
\* output it spends
ScriptsAccepted(input, output) ==
    LET first == RunToEnd(NewInterpreter(input))
        second == RunToEnd([first EXCEPT !.script = output, !.readOffset = 0,
                                         !.returned = "running"])
    IN  /\ ProcessReturns(first)
        /\ ProcessReturns(second)
        /\ IsValid(second)
        /\ IsVerified(second)

\* the amount of an unspent output of the pool: never negative
PoolAmount(outpoint) == IF outpoint = 1 THEN 3 ELSE (AmountModulus \div 2) - 1
PoolScript(outpoint) == P2PKHScript(Hash160(Key(1)))

\* the value of mFee after an addition or a subtraction
FeeOf(x, unsigned) ==
    IF unsigned THEN x % AmountModulus
    ELSE ((x + (AmountModulus \div 2)) % AmountModulus) - (AmountModulus \div 2)

\* the amounts an output of a transaction carries: an int64_t
OutputAmounts == (0 - 1)..((AmountModulus \div 2) - 1)

TransactionCall(coinBase, unsigned) ==
    [fn |-> "transaction", pCoinBase |-> coinBase, feeUnsigned |-> unsigned,
     stage |-> "inputs", index |-> 0, mFee |-> 0, unspent |-> 1..NumOutpoints,
     added |-> 0, spentAmount |-> 0, outputAmount |-> 0, result |-> "running"]

InitTransaction ==
    /\ InitMembers(Loaded)
    /\ faults = 0
    /\ call \in {TransactionCall(c, u) : c \in BOOLEAN, u \in BOOLEAN}

\* one pass of the loop over the inputs: the input names the outpoint
\* (0: an output the pool does not hold) or, for a coinbase, carries the
\* index 0xffffffff or not; its script is signed with the key signer
ProcessInput(t, outpoint, signer, coinBaseIndex) ==
    IF t.pCoinBase
    THEN IF ~coinBaseIndex THEN [t EXCEPT !.result = "false"]
         ELSE [t EXCEPT !.index = @ + 1]
    ELSE IF outpoint \notin t.unspent THEN [t EXCEPT !.result = "false"]
    ELSE LET spent == [t EXCEPT !.unspent = @ \ {outpoint},
                                !.spentAmount = @ + PoolAmount(outpoint)]
         IN  IF ~ScriptsAccepted(PushData(SignatureOf(signer)) \o PushData(Key(signer)),
                                 PoolScript(outpoint))
             THEN [spent EXCEPT !.result = "false"]
             ELSE [spent EXCEPT !.mFee = FeeOf(@ + PoolAmount(outpoint), t.feeUnsigned),
                                !.index = @ + 1]

\* a plausible slip: the outputs are not compared with the fee
ProcessOutputNoFeeTest(t, amount) ==
    IF amount < 0 THEN [t EXCEPT !.result = "false"]
    ELSE [t EXCEPT !.added = @ + 1,
                   !.outputAmount = @ + amount,
                   !.mFee = FeeOf(@ - amount, t.feeUnsigned),
                   !.index = @ + 1]

\* one pass of the loop over the outputs
ProcessOutput(t, amount) ==
    IF amount < 0 THEN [t EXCEPT !.result = "false"]
    ELSE LET added == [t EXCEPT !.added = @ + 1, !.outputAmount = @ + amount]
         IN  IF ~t.pCoinBase /\ amount > 0 /\ amount > t.mFee
             THEN [added EXCEPT !.result = "false"]
             ELSE [added EXCEPT !.mFee = FeeOf(@ - amount, t.feeUnsigned),
                                !.index = @ + 1]

DoProcessInput ==
    /\ call.fn = "transaction"
    /\ call.result = "running"
    /\ call.stage = "inputs"
    /\ call.index < MaxInputs
    /\ \E outpoint \in 0..NumOutpoints, signer \in 1..2, coinBaseIndex \in BOOLEAN :
          call' = ProcessInput(call, outpoint, signer, coinBaseIndex)
    /\ UNCHANGED <<members, threads, now, requestedTime, faults, last, reorg>>

\* the last input is behind: the loop over the outputs begins
DoEndInputs ==
    /\ call.fn = "transaction"
    /\ call.result = "running"
    /\ call.stage = "inputs"
    /\ call' = [call EXCEPT !.stage = "outputs", !.index = 0]
    /\ UNCHANGED <<members, threads, now, requestedTime, faults, last, reorg>>

DoProcessOutput ==
    /\ call.fn = "transaction"
    /\ call.result = "running"
    /\ call.stage = "outputs"
    /\ call.index < MaxOutputs
    /\ \E amount \in OutputAmounts : call' = ProcessOutput(call, amount)
    /\ UNCHANGED <<members, threads, now, requestedTime, faults, last, reorg>>

\* the last output is behind: process() returns true
DoEndOutputs ==
    /\ call.fn = "transaction"
    /\ call.result = "running"
    /\ call.stage = "outputs"
    /\ call' = [call EXCEPT !.result = "true"]
    /\ UNCHANGED <<members, threads, now, requestedTime, faults, last, reorg>>

NextTransaction == DoProcessInput \/ DoEndInputs \/ DoProcessOutput \/ DoEndOutputs

SpecTransaction == InitTransaction /\ [][NextTransaction]_vars


(***************************************************************************)
(* A peer that floods the chain with blocks without proof of work, while   *)
(* the block B1, black-listed when its body failed, is offered again.      *)
(***************************************************************************)
\* the chain after addPendingBlock(B1) and process(): B1 is black-listed
BlackListStart == Process(AddPendingBlock(Loaded, "B1", TRUE).c, TRUE, TRUE).c

InitBlackList == InitAt(BlackListStart) /\ faults = 0

\* the blocks without proof of work, in the order the peer sends them
InvalidBlocks == [k \in 1..MaxInvalid |-> NoWorkHash(k)]

\* the number of the last block the peer sent: the black list keeps the order
\* of arrival, so it is the newest entry that is not a block of the universe
LastInvalid ==
    LET n == Len(mBlackListBlocks)
        newest == IF mBlackListBlocks[n] \notin Hashes THEN mBlackListBlocks[n]
                  ELSE IF n > 1 /\ mBlackListBlocks[n - 1] \notin Hashes
                  THEN mBlackListBlocks[n - 1]
                  ELSE EmptyHash
    IN  IF newest = EmptyHash THEN 0
        ELSE CHOOSE k \in 1..MaxInvalid : InvalidBlocks[k] = newest

\* the peer sends its next block without proof of work
DoAddInvalidBlock ==
    /\ Len(mBlackListBlocks) > 0
    /\ LastInvalid < MaxInvalid
    /\ SubmitBlock(NoWorkHash(LastInvalid + 1), TRUE)

DoOfferAgain == \E full \in BOOLEAN : SubmitBlock("B1", full)

DoAddPendingHash ==
    \E hash \in {"B1", "B2"}, node \in 1..NumNodes, timedOut \in BOOLEAN :
        LET r == AddPendingHash(State, hash, node, timedOut)
        IN  Record(r.c,
                   [op |-> "addPendingHash", hash |-> hash, full |-> FALSE,
                    result |-> r.status, activated |-> FALSE],
                   reorg)

NextBlackList == DoAddInvalidBlock \/ DoOfferAgain \/ DoAddPendingHash \/ DoProcess

SpecBlackList == InitBlackList /\ [][NextBlackList]_vars

(***************************************************************************)
(* A long chain G - L1 - L2 - ... of full blocks and a branch of headers   *)
(* of double work forked at height 1.                                      *)
(***************************************************************************)
DoAddLong == \E k \in 1..MaxLong : SubmitBlock(LongBlocks[k], TRUE)

DoAddHard == \E k \in 1..MaxHard : SubmitBlock(HardBlocks[k], FALSE)

NextLong == DoAddLong \/ DoAddHard \/ DoProcess

SpecLong == Init /\ [][NextLong]_vars

(***************************************************************************)
(* Claims about process(), processBlock(), checkBranches() and revert().   *)
(* A claim about what an operation does is stated of every reachable       *)
(* state: the operation applied to the state does what the claim says.     *)
(***************************************************************************)
HeadIsFull == Len(mPendingBlocks) > 0 /\ mPendingBlocks[1].full
NextPending == mPendingBlocks[1]

\* processBlock as process() calls it on the head of the pending queue
HeadResult == ProcessBlock(State, NextPending.hash, TRUE, TRUE)

HashesOf(blocks) == [i \in 1..Len(blocks) |-> blocks[i].hash]

ProcessAdded == last.op = "process" /\ last.result = "added"

\* C1: every block that process() appends to the active chain has a previous
\* hash equal to the hash of the chain's tip at the moment it is appended,
\* also after a branch was activated or the pending queue was cleared
C1_AppendedBlockLinksToTip ==
    (HeadIsFull /\ HeadResult.ok) => PreviousHash(NextPending.hash) = mLastBlockHash

\* the chains at which an operation called in the current state calls
\* checkBranches: addPendingBlock after it updated a branch, process after
\* it cleared the pending queue of a failed block
CheckPoints ==
    { AddPendingCore(State, p[1], p[2]).c :
          p \in { q \in Hashes \X BOOLEAN :
                      AddPendingCore(State, q[1], q[2]).branchesUpdated } }
    \cup (IF HeadIsFull /\ ~HeadResult.ok
          THEN {ClearPending(HeadResult.c, NextPending)} ELSE {})

\* accumulated work of the main chain including its pending blocks
MainChainWork(c) == AccumulatedWork(c) + SumWork(c.mPendingBlocks)

\* C2: checkBranches activates a branch only when its accumulated work is
\* strictly greater than the main chain's including its pending blocks,
\* branches of at most equal work leave the active chain and the main
\* pending queue unchanged, and the branch activated has the greatest work
C2_ActivationNeedsStrictlyMoreWork ==
    \A c \in CheckPoints :
        LET r == CheckBranches(c)
        IN  /\ r.activated # <<>> =>
                  /\ r.activated[1].accumulatedWork > MainChainWork(c)
                  /\ \A b \in 1..Len(c.mBranches) :
                        c.mBranches[b].accumulatedWork <= r.activated[1].accumulatedWork
            /\ (\A b \in 1..Len(c.mBranches) :
                    c.mBranches[b].accumulatedWork <= MainChainWork(c)) =>
                  /\ r.c.mBlockHashes = c.mBlockHashes
                  /\ r.c.mPendingBlocks = c.mPendingBlocks

\* C6: the branch saved for the previous main chain when a branch forked at
\* height h is activated holds the active blocks from height h + 1 up to and
\* including the old tip, in height order, then the main pending blocks
C6_SavedBranchHoldsPreviousMain ==
    \A c \in CheckPoints :
        LET r == CheckBranches(c)
        IN  r.activated # <<>> =>
                LET h == r.activated[1].height - 1
                IN  /\ r.saved[1] \in SeqToSet(r.c.mBranches)
                    /\ HashesOf(r.saved[1].pendingBlocks) =
                           SubSeq(c.mBlockHashes, h + 2, Len(c.mBlockHashes))
                               \o HashesOf(c.mPendingBlocks)

\* C7: activating a branch forked at height h undoes the active blocks one
\* at a time in strictly descending height order, and when revert returns
\* successfully height() is h, the tip hash is the hash of the block at
\* height h, and the hash list and the hash index hold no entry above h
C7_RevertEndsAtForkHeight ==
    \A c \in CheckPoints :
        LET r == CheckBranches(c)
        IN  r.activated # <<>> =>
                LET h  == r.activated[1].height - 1
                    rv == Revert(c, h)
                IN  /\ r.undone = rv.undone
                    /\ \A i \in 1..Len(rv.undone) : rv.undone[i] = Height(c) - i + 1
                    /\ rv.ok =>
                          /\ Height(rv.c) = h
                          /\ Len(rv.c.mBlockHashes) = h + 1
                          /\ rv.c.mLastBlockHash = rv.c.mBlockHashes[h + 1]
                          /\ \A i \in 1..Len(rv.c.mBlockLookup) :
                                rv.c.mBlockLookup[i].height <= h

\* process() as called in the current state
ProcessResult == Process(State, TRUE, TRUE)

\* C3: a successful process() removes exactly the head entry of the main
\* pending queue, raises height() by exactly one and makes that entry's hash
\* the tip; while the head entry is header-only no block is applied
C3_ProcessAppliesHeadOnly ==
    /\ (HeadIsFull /\ HeadResult.ok) =>
          /\ ProcessResult.c.mPendingBlocks = Tail(mPendingBlocks)
          /\ Height(ProcessResult.c) = Height(State) + 1
          /\ ProcessResult.c.mLastBlockHash = NextPending.hash
          /\ ProcessResult.c.mBlockHashes = Append(mBlockHashes, NextPending.hash)
    /\ (Len(mPendingBlocks) > 0 /\ ~NextPending.full) =>
          /\ ProcessResult.c.mBlockHashes = mBlockHashes
          /\ ProcessResult.c.mPendingBlocks = mPendingBlocks
          /\ Height(ProcessResult.c) = Height(State)

\* a block was appended and blocks behind it stayed in the pending queue
C3_Witness ==
    /\ ProcessAdded /\ mLastBlockHash = last.hash
    /\ Len(mPendingBlocks) > 0 /\ Len(mBlockHashes) > 1

\* the target computed for the height of the next block (updateTargetBits
\* after the block's entry was added to the statistics)
ExpectedTargetBits(hash) ==
    UpdateTargetBits([State EXCEPT !.mBlockStats =
                         StatsAdd(@, TimeOf(hash), TargetBitsOf(hash))]).mTargetBits

WrongTargetBits(hash) ==
    /\ TargetBitsOf(hash) # ExpectedTargetBits(hash)
    /\ ~(/\ UseTestMinDifficulty(
                [State EXCEPT !.mBlockStats =
                    StatsAdd(@, TimeOf(hash), TargetBitsOf(hash))], hash)
          /\ TargetBitsOf(hash) = MaxTargetBits)

\* C4: a full block whose target bits differ from the target computed for
\* its height (no testnet exception) is rejected; when processBlock returns,
\* height, tip hash, hash list, target bits and BlockStats height are what
\* they were before the call; after process() its hash is black-listed
C4_WrongTargetRejected ==
    (HeadIsFull /\ WrongTargetBits(NextPending.hash)) =>
        /\ ~HeadResult.ok
        /\ Height(HeadResult.c) = Height(State)
        /\ HeadResult.c.mLastBlockHash = mLastBlockHash
        /\ HeadResult.c.mBlockHashes = mBlockHashes
        /\ HeadResult.c.mTargetBits = mTargetBits
        /\ StatsHeight(HeadResult.c.mBlockStats) = StatsHeight(mBlockStats)
        /\ NextPending.hash \in SeqToSet(ProcessResult.c.mBlackListBlocks)
        /\ NextPending.hash \notin SeqToSet(ProcessResult.c.mBlockHashes)

\* process() rejected a block for its target bits, on a chain above genesis
C4_Witness ==
    /\ last.op = "process" /\ last.result = "target"
    /\ last.hash \in SeqToSet(mBlackListBlocks)
    /\ Len(mBlockHashes) > 1

\* C5: whenever processBlock returns false (validation failed, the commit of
\* the outputs failed, or the block file could not be created or written)
\* the changes made to the outputs for that block have been reverted and
\* the block files hold exactly the blocks they held before the call
C5_FailedBlockLeavesStoresUnchanged ==
    HeadIsFull =>
        \A fileOk, commitOk \in BOOLEAN :
            ((fileOk /\ commitOk) \/ faults > 0) =>
                LET r == ProcessBlock(State, NextPending.hash, fileOk, commitOk)
                IN  ~r.ok => /\ r.c.mOutputs = mOutputs
                             /\ r.c.blockFiles = blockFiles

\* C8: when branch B is activated over main chain M (no main pending
\* blocks) and the saved copy of M is afterwards activated again and fully
\* processed, height, tip hash and hash list equal those before B was
\* activated
C8_ReactivationRestoresChain ==
    (reorg.stage = "done" /\ ~reorg.pend) =>
        /\ mBlockHashes = reorg.chain
        /\ Height(State) = Len(reorg.chain) - 1
        /\ mLastBlockHash = Last(reorg.chain)

\* C9: when a block of an activated branch B fails validation during the
\* replay, its hash is black-listed and the saved previous main chain is
\* moved back, so that the active chain again ends at the tip it had before
\* B was activated (once the blocks moved back are processed, the block at
\* the old tip's height is the old tip, on top of the old chain)
C9_FailedReplayRestoresTip ==
    /\ reorg.stage # "lost"
    /\ (reorg.stage \in {"M", "done"} /\ last.result \in Failures) =>
          last.hash \in SeqToSet(mBlackListBlocks)
    /\ reorg.stage = "done" =>
          /\ Len(mBlockHashes) >= Len(reorg.chain)
          /\ mBlockHashes[Len(reorg.chain)] = Last(reorg.chain)
          /\ Front(mBlockHashes, Len(reorg.chain)) = reorg.chain

\* what the pending counters are for a list of pending blocks
RECURSIVE SumSize(_)
SumSize(blocks) ==
    IF blocks = <<>> THEN 0 ELSE BlockSize(blocks[1].full) + SumSize(Tail(blocks))

FullCount(blocks) == Cardinality({i \in 1..Len(blocks) : blocks[i].full})

\* C10: when the head block of the main pending queue fails validation, its
\* hash and its requesting node are black-listed, every block of the main
\* pending queue is discarded (pending count, pending size and the count of
\* full pending blocks become zero), and the branches are re-evaluated
\* before process() returns: only the blocks of a branch activated by that
\* re-evaluation are pending afterwards
C10_FailedHeadClearsPending ==
    (HeadIsFull /\ ~HeadResult.ok) =>
        LET p == ProcessResult
        IN  /\ NextPending.hash \in SeqToSet(p.c.mBlackListBlocks)
            /\ p.c.mBlackListedNodeIDs =
                   Append(mBlackListedNodeIDs, NextPending.requestingNode)
            /\ p.check.activated = <<>> =>
                   /\ p.c.mPendingBlocks = <<>>
                   /\ p.c.mPendingSize = 0
                   /\ p.c.mPendingBlockCount = 0
                   /\ p.c.mLastPendingHash = EmptyHash
            /\ p.check.activated # <<>> =>
                   /\ p.check.activated[1] \in SeqToSet(mBranches)
                   /\ p.c.mPendingBlocks = p.check.activated[1].pendingBlocks
                   /\ p.c.mPendingSize = SumSize(p.c.mPendingBlocks)
                   /\ p.c.mPendingBlockCount = FullCount(p.c.mPendingBlocks)
                   /\ HashesOf(p.check.saved[1].pendingBlocks) \in
                          { SubSeq(mBlockHashes, k, Len(mBlockHashes)) :
                                k \in 1..(Len(mBlockHashes) + 1) }

\* a head requested by a node failed, blocks behind it were discarded
C10_Witness ==
    /\ last.op = "process" /\ last.result \in {"block", "target"}
    /\ Len(mBlackListedNodeIDs) > 0 /\ Last(mBlackListedNodeIDs) # 0
    /\ mPendingBlocks = <<>> /\ mPendingSize = 0 /\ mPendingBlockCount = 0


(***************************************************************************)
(* The order of the rules of addPendingBlock.                              *)
(***************************************************************************)
\* the hashes held by the branches
BranchHashes(c) ==
    UNION { SeqToSet(HashesOf(c.mBranches[b].pendingBlocks)) : b \in 1..Len(c.mBranches) }

\* the entry of the hash is header-only: the first entry of the main pending
\* list with the hash, else the first one of the first branch holding it
SlotIsHeaderOnly(c, hash) ==
    LET pi == IndexOfHash(c.mPendingBlocks, hash)
        bi == BranchWithHash(c, hash)
    IN  IF pi # 0 THEN ~c.mPendingBlocks[pi].full
        ELSE /\ bi # 0
             /\ ~c.mBranches[bi].pendingBlocks[
                    IndexOfHash(c.mBranches[bi].pendingBlocks, hash)].full

\* the block passes the checks made before the rules
Submittable(c, hash) ==
    /\ HasProofOfWork(hash)
    /\ hash \notin SeqToSet(c.mBlackListBlocks)
    /\ ~BlockInChain(c, hash)

\* the first rule that matches, in the documented order
FirstRule(c, hash, full) ==
    LET prev == PreviousHash(hash)
        tail == IF Len(c.mPendingBlocks) = 0 THEN c.mLastBlockHash
                ELSE Last(c.mPendingBlocks).hash
    IN  IF prev = tail THEN "main"
        ELSE IF hash \in SeqToSet(HashesOf(c.mPendingBlocks)) \cup BranchHashes(c)
        THEN IF full /\ SlotIsHeaderOnly(c, hash) THEN "fill" ELSE "duplicate"
        ELSE IF prev \in SeqToSet(HashesOf(c.mPendingBlocks)) THEN "branchpending"
        ELSE IF \E b \in 1..Len(c.mBranches) :
                    /\ Len(c.mBranches[b].pendingBlocks) > 0
                    /\ Last(c.mBranches[b].pendingBlocks).hash = prev
        THEN "extend"
        ELSE IF \E k \in 1..Len(c.mBlockHashes) :
                    k > Len(c.mBlockHashes) - 100 /\ c.mBlockHashes[k] = prev
        THEN "branchchain"
        ELSE "unknown"

\* what the outcome of a rule does to the pending list and the branches
RuleEffect(rule, c, d, hash) ==
    LET po == c.mPendingBlocks
        pn == d.mPendingBlocks
        bo == c.mBranches
        bn == d.mBranches
    IN  CASE rule = "main" ->
               /\ HashesOf(pn) = Append(HashesOf(po), hash)
               /\ Front(pn, Len(po)) = po
               /\ bn = bo
          [] rule \in {"duplicate", "unknown"} -> pn = po /\ bn = bo
          [] rule = "fill" ->
               \/ /\ bn = bo
                  /\ \E i \in 1..Len(po) :
                        po[i].hash = hash /\ pn = [po EXCEPT ![i].full = TRUE]
               \/ /\ pn = po
                  /\ \E b \in 1..Len(bo) : \E k \in 1..Len(bo[b].pendingBlocks) :
                        /\ bo[b].pendingBlocks[k].hash = hash
                        /\ bn = [bo EXCEPT ![b].pendingBlocks[k].full = TRUE]
          [] rule \in {"branchpending", "branchchain"} ->
               /\ pn = po
               /\ Len(bn) = Len(bo) + 1
               /\ Front(bn, Len(bo)) = bo
               /\ HashesOf(Last(bn).pendingBlocks) = <<hash>>
          [] rule = "extend" ->
               /\ pn = po
               /\ Len(bn) = Len(bo)
               /\ \E b \in 1..Len(bo) :
                     /\ Len(bo[b].pendingBlocks) > 0
                     /\ Last(bo[b].pendingBlocks).hash = PreviousHash(hash)
                     /\ HashesOf(bn[b].pendingBlocks) =
                            Append(HashesOf(bo[b].pendingBlocks), hash)
                     /\ \A a \in 1..Len(bo) : a # b => bn[a] = bo[a]

\* C11: a submitted block with proof of work that is neither black-listed nor
\* in the chain is handled by the first rule that matches in the order: append
\* to the main pending list, duplicate or fill of an existing entry, new
\* branch off a main pending entry, append to a branch, new branch off one of
\* the last 100 chain hashes, rejection; and that rule's outcome alone takes
\* effect on the pending list and the branches.
C11_FirstMatchingRuleApplies ==
    \A hash \in Hashes : \A full \in BOOLEAN :
        Submittable(State, hash) =>
            LET a == AddPendingCore(State, hash, full)
                rule == FirstRule(State, hash, full)
            IN  /\ RuleEffect(rule, State, a.c, hash)
                /\ a.branchesUpdated = (rule \in {"branchpending", "extend", "branchchain"})
                /\ rule = "unknown" => ~a.ret

\* a block was appended to a branch while the main pending list holds blocks
C11_Witness ==
    /\ last.op = "addPendingBlock"
    /\ last.result = "extend"
    /\ Len(mPendingBlocks) > 1
    /\ \E b \in 1..Len(mBranches) :
          /\ Len(mBranches[b].pendingBlocks) > 1
          /\ Last(mBranches[b].pendingBlocks).hash = last.hash


\* the hash is held by the main pending list, a branch or the chain
KnownHash(c, hash) ==
    \/ hash \in SeqToSet(HashesOf(c.mPendingBlocks))
    \/ hash \in BranchHashes(c)
    \/ BlockInChain(c, hash)

\* the two lists hold the same entries up to their "full" marks
SameEntries(old, new) ==
    /\ Len(new) = Len(old)
    /\ \A i \in 1..Len(old) :
          /\ new[i].hash = old[i].hash
          /\ new[i].requestingNode = old[i].requestingNode
          /\ old[i].full => new[i].full

\* C12: a header whose hash is already in the main pending list, in a branch
\* or in the chain is a duplicate: addPendingBlock returns false and adds no
\* entry to the pending list or a branch; a repeated hash changes nothing but
\* the fill of a header-only entry by a submission that carries a body.
C12_RepeatedHashIsDuplicate ==
    \A hash \in Hashes :
        KnownHash(State, hash) =>
            LET h == AddPendingBlock(State, hash, FALSE)
                f == AddPendingBlock(State, hash, TRUE)
            IN  /\ ~h.ret
                /\ h.c.mPendingBlocks = mPendingBlocks
                /\ h.c.mBranches = mBranches
                /\ SameEntries(mPendingBlocks, f.c.mPendingBlocks)
                /\ Len(f.c.mBranches) = Len(mBranches)
                /\ \A b \in 1..Len(mBranches) :
                      SameEntries(mBranches[b].pendingBlocks,
                                  f.c.mBranches[b].pendingBlocks)


(***************************************************************************)
(* The black list.                                                         *)
(***************************************************************************)
\* the hashes the black list is examined for
Suspects ==
    Hashes \cup {NoWorkHash(1)}
           \cup (IF Len(mBlackListBlocks) > 0 THEN {mBlackListBlocks[1]} ELSE {})

\* every submission and announcement of the hash is refused and changes nothing
Refused(c, hash) ==
    /\ \A full \in BOOLEAN :
          LET a == AddPendingBlock(c, hash, full)
          IN  ~a.ret /\ a.c = c
    /\ \A node \in 1..NumNodes, timedOut \in BOOLEAN :
          LET a == AddPendingHash(c, hash, node, timedOut)
          IN  a.status = "BLACK_LISTED" /\ a.c = c

CheckBranchesReturned ==
    \/ last.op = "addPendingBlock" /\ last.result \in {"branchpending", "extend", "branchchain"}
    \/ last.op = "process" /\ last.result \in Failures

\* the height of the last block of a branch (height is "the chain height of
\* the first block in the branch")
BranchTip(br) == br.height + Len(br.pendingBlocks) - 1

\* C14: after checkBranches returns, no branch remains whose tip lies more
\* than 144 blocks below the active tip and whose accumulated work does not
\* exceed the accumulated work of the main pending list.
C14_NoWeakBranchFarBehind ==
    CheckBranchesReturned =>
        \A b \in 1..Len(mBranches) :
            ~ /\ BranchTip(mBranches[b]) < Height(State) - BranchDropDepth
              /\ mBranches[b].accumulatedWork <= PendingAccumulatedWork(State)


(***************************************************************************)
(* The tip of the chain.                                                   *)
(***************************************************************************)
\* C16: in every state reached by submissions, processing, failed reverts
\* and reorganisations, lastBlockHash is the last entry of the hash list and
\* height() is the number of appended blocks minus one.
C16_TipIsLastHash ==
    /\ mLastBlockHash = Last(mBlockHashes)
    /\ Height(State) = Len(mBlockHashes) - 1


(***************************************************************************)
(* The states inside processBlock and revert (specification SpecThreads).  *)
(***************************************************************************)
\* C15: in every reachable state, the states inside processBlock() and
\* revert() included, the height of the outputs is the chain height or the
\* chain height minus one.
C15_OutputsHeightWithinOne ==
    mOutputs.height \in {Height(State), Height(State) - 1}

\* the manager thread is inside processBlock
ApplyingBlock == manager.pc \in {"validate", "committed"}

\* the connection thread is inside the revert of checkBranches and has
\* undone a block
UndoingBlocks == connection.pc = "revert" /\ connection.undone > 0

\* C17: the outputs, the block files, the statistics and the forks change
\* only under mProcessMutex, so at most one block is being applied or undone
\* at any time: no block is undone by the reorganisation of addPendingBlock()
\* on the connection thread while processBlock() runs on the manager thread.
C17_OneBlockAtATime == ~(ApplyingBlock /\ UndoingBlocks)

\* C18: once requestStop() was called no block is applied to or undone from
\* the chain, except that the block inside processBlock is still linked.
C18_StopEndsChainChanges ==
    [][mStop =>
          \/ mBlockHashes' = mBlockHashes
          \/ /\ manager.pc = "committed"
             /\ mBlockHashes' = Append(mBlockHashes, manager.hash)]_vars


(***************************************************************************)
(* Chain::getBlocksNeeded.                                                 *)
(***************************************************************************)
\* positions of the pending list whose entry is a header that no node was
\* asked for
Requestable(c) ==
    {k \in 1..Len(c.mPendingBlocks) :
        ~c.mPendingBlocks[k].full /\ c.mPendingBlocks[k].requestingNode = 0}

\* hashes are the hashes of the entries at increasing positions among ks
RECURSIVE InQueueOrder(_, _, _, _)
InQueueOrder(c, hashes, ks, from) ==
    \/ hashes = <<>>
    \/ \E k \in ks :
          /\ k >= from
          /\ c.mPendingBlocks[k].hash = Head(hashes)
          /\ InQueueOrder(c, Tail(hashes), ks, k + 1)

\* C19: getBlocksNeeded(hashes, n, reduceOnly) yields at most n hashes, each
\* the hash of an entry of the main pending list that is header-only and not
\* assigned to a node, in the order of the list.
C19_AtMostCountRequestableInOrder ==
    \A n \in 0..MaxCount, pReduceOnly \in BOOLEAN :
        LET hashes == GetBlocksNeeded(State, n, pReduceOnly)
        IN  /\ Len(hashes) <= n
            /\ InQueueOrder(State, hashes, Requestable(State), 1)

\* C20: with reduceOnly, getBlocksNeeded yields only header-only entries
\* that have a full pending block somewhere after them.
C20_ReduceOnlyBeforeFullBlock ==
    \A n \in 0..MaxCount :
        LET hashes == GetBlocksNeeded(State, n, TRUE)
        IN  \A i \in 1..Len(hashes) :
               \E k \in Requestable(State) :
                  /\ mPendingBlocks[k].hash = hashes[i]
                  /\ \E j \in k + 1..Len(mPendingBlocks) : mPendingBlocks[j].full

\* a header in front of a full block is yielded with reduceOnly
C20_Witness ==
    /\ mLastFullPendingOffset > 0
    /\ GetBlocksNeeded(State, MaxCount, TRUE) # <<>>


(***************************************************************************)
(* Requests that time out (specification SpecRequests).                    *)
(***************************************************************************)
\* C21: a header-only pending block marked as requested by a node is handed
\* out again by getBlocksNeeded() once the request timeout has elapsed, also
\* when the node neither delivers the block nor is released.
C21_TimedOutRequestHandedOutAgain ==
    \A k \in 1..Len(mPendingBlocks) :
        LET pending == mPendingBlocks[k]
        IN  /\ ~pending.full
            /\ pending.requestingNode # 0
            /\ now - requestedTime[pending.hash] > BlockRequestTimeout
            => pending.hash \in
                   SeqToSet(GetBlocksNeeded(State, Len(mPendingBlocks), FALSE))


(***************************************************************************)
(* The count of full pending blocks.                                       *)
(***************************************************************************)
\* C22: pendingBlockCount() is the number of entries of the main pending
\* list that hold a full block (and so never wraps below zero), after any
\* sequence of submissions, processing and reorganisations.
C22_PendingBlockCountIsFullCount ==
    mPendingBlockCount = FullCount(mPendingBlocks)


(***************************************************************************)
(* The target of the next block (specification SpecTarget).                *)
(***************************************************************************)
\* the span of the original retarget, limited by the factor 4.0
RetargetSpan(v) ==
    IF UGreater(v.lastBlockTime - v.lastAdjustmentTime, 4 * 1209600)
    THEN 4 * 1209600 ELSE v.lastBlockTime - v.lastAdjustmentTime

\* the target a rule yields; bits is the target before
RuleTargetBits(rule, v, bits) ==
    CASE rule = "max"      -> MaxTargetBits
      [] rule = "daa"      -> CompactOfWork((v.work * 600) \div
                                            DaaTimeSpan(v.lastTime, v.firstTime))
      [] rule = "eda"      -> IF v.mtp - v.mtp6 >= 43200
                              THEN RaiseTargetBits(v.lastTargetBits) ELSE bits
      [] rule = "retarget" -> MultiplyTargetBits(v.lastTargetBits, RetargetSpan(v))
      [] OTHER             -> bits

\* the first rule that fires, in the order of the claim
FirstRuleInOrder(v) ==
    IF v.height <= 1 THEN "max"
    ELSE IF v.cashActive /\ v.mtp > 1510600000 /\ v.height > 146 THEN "daa"
    ELSE IF v.cashActive /\ v.height > 7 THEN "eda"
    ELSE IF v.height % RETARGET_PERIOD = 0 THEN "retarget"
    ELSE "none"

\* the rule whose result stands
StandingRule(v) ==
    IF v.height <= 1 THEN "max"
    ELSE IF v.cashActive /\ v.mtp > 1510600000
    THEN IF v.height > 146 THEN "daa" ELSE "none"
    ELSE IF v.height % RETARGET_PERIOD = 0 THEN "retarget"
    ELSE IF v.cashActive /\ v.height > 7 THEN "eda"
    ELSE "none"

\* C23 (as claimed): updateTargetBits applies exactly the first rule that
\* fires in the order maximum target, Cash DAA, EDA, original retarget,
\* unchanged; no later rule overrides an earlier one.
C23_FirstRuleInOrderApplies ==
    (call.fn = "updateTargetBits" /\ call.done) =>
        call.result = RuleTargetBits(FirstRuleInOrder(call.view), call.view, call.prior)

\* C23 (amended): the maximum target up to height 1; with Cash active and
\* the median past time above 1510600000 the Cash DAA above height 146 and
\* no change below; else the original retarget at multiples of 2016, also
\* over an EDA result; else the EDA with Cash active above height 7; else
\* no change.
C23_StandingRuleApplies ==
    (call.fn = "updateTargetBits" /\ call.done) =>
        call.result = RuleTargetBits(StandingRule(call.view), call.view, call.prior)

\* the EDA raised the target at a multiple of 2016 and the original retarget
\* replaced its result
C23_Witness ==
    /\ call.fn = "updateTargetBits" /\ call.done
    /\ FirstRuleInOrder(call.view) = "eda"
    /\ call.view.mtp - call.view.mtp6 >= 43200
    /\ StandingRule(call.view) = "retarget"
    /\ call.result # RaiseTargetBits(call.view.lastTargetBits)


\* the view's difference lastTime - firstTime limited to [72 * 600, 288 * 600]
ClampedSpan(v) ==
    IF v.lastTime - v.firstTime < 72 * 600 THEN 72 * 600
    ELSE IF v.lastTime - v.firstTime > 288 * 600 THEN 288 * 600
    ELSE v.lastTime - v.firstTime

\* C25: the time span of the Cash DAA is lastTime - firstTime limited to
\* [72 * 600, 288 * 600]: a smaller difference, a negative one included,
\* yields 72 * 600 and a larger one 288 * 600.
C25_DaaTimeSpanClamped ==
    (call.fn = "updateTargetBits" /\ call.done /\ StandingRule(call.view) = "daa") =>
        /\ DaaTimeSpan(call.view.lastTime, call.view.firstTime) = ClampedSpan(call.view)
        /\ call.result = CompactOfWork((call.view.work * 600) \div ClampedSpan(call.view))


(***************************************************************************)
(* The target between retargets (specification SpecTestnet).               *)
(***************************************************************************)
\* no rule of updateTargetBits fires for the block after the tip
NoRuleFiresNext ==
    /\ Height(State) + 1 > 1
    /\ (Height(State) + 1) % RETARGET_PERIOD # 0
    /\ ~CashActive(State)

\* C24: when no retarget rule fires for the next height, the target expected
\* of the next block is the targetBits of the block at the tip, also right
\* after a revert, after load() and after a test network block of minimum
\* difficulty was accepted.
C24_ExpectedTargetIsTipTarget ==
    NoRuleFiresNext =>
        \A hash \in Hashes :
            ExpectedTargetBits(hash) =
                StatsTargetBits(mBlockStats, StatsHeight(mBlockStats))

\* C26: on the test network a block with the targetBits 0x1d00ffff whose
\* time is at least 1200 s after the time of the block before it passes the
\* target check although the computed target differs, and is rejected when
\* the interval is shorter.
C26_TestnetMinimumDifficulty ==
    ( /\ network = "TESTNET"
      /\ HeadIsFull
      /\ TargetBitsOf(NextPending.hash) = MaxTargetBits
      /\ ExpectedTargetBits(NextPending.hash) # MaxTargetBits
      /\ BodyValid(NextPending.hash) ) =>
        ( HeadResult.ok <=>
            TimeOf(NextPending.hash)
              - StatsTime(mBlockStats, StatsHeight(mBlockStats)) >= 1200 )


(***************************************************************************)
(* Script evaluation (specification SpecScripts).                          *)
(***************************************************************************)
EvaluationDone == call.fn = "process" /\ call.stage = "done"

\* the two items a signature script pushes, and the hash a P2PKH script holds
PushedSignature(input) == SubSeq(input, 2, 1 + input[1])
PushedKey(input) == SubSeq(input, 3 + input[1], Len(input))
LockedHash(output) == SubSeq(output, 4, Len(output) - 2)

\* the input pushes two items and nothing else, the output is
\* DUP HASH160 <h> EQUALVERIFY CHECKSIG
IsP2PKH(input, output) ==
    /\ Len(input) >= 4
    /\ input[1] \in 1..MAX_SINGLE_BYTE_PUSH_DATA_CODE
    /\ Len(input) >= 3 + input[1]
    /\ input[2 + input[1]] \in 1..MAX_SINGLE_BYTE_PUSH_DATA_CODE
    /\ Len(input) = 2 + input[1] + input[2 + input[1]]
    /\ Len(output) >= 6
    /\ output = P2PKHScript(LockedHash(output))

\* C27: a P2PKH output script spent by an input script that pushes a
\* signature and a public key evaluates to Valid-Verified exactly when the
\* hash of the key is the hash of the script and the signature verifies
\* under the key, and to Valid-Unverified, never Invalid, otherwise.
C27_P2PKHOutcome ==
    (EvaluationDone /\ IsP2PKH(call.input, call.output)) =>
        Outcome(call.interpreter) =
            IF /\ Hash160(PushedKey(call.input)) = LockedHash(call.output)
               /\ CheckSignature(PushedKey(call.input), PushedSignature(call.input))
            THEN "Valid-Verified"
            ELSE "Valid-Unverified"

C27_Witness ==
    /\ EvaluationDone
    /\ IsP2PKH(call.input, call.output)
    /\ Outcome(call.interpreter) = "Valid-Verified"


\* the next op code of the evaluation is executed and is opCode
AboutToExecute(opCode) ==
    /\ Evaluating
    /\ call.interpreter.script[call.interpreter.readOffset + 1] = opCode
    /\ IfStackTrue(call.interpreter)

\* the stack ends with <extra> sig1 .. sigM M key1 .. keyN N
KeyCount(s) == IntegerOf(s[Len(s)])
SignatureCount(s) == IntegerOf(s[Len(s) - KeyCount(s) - 1])
MultiSigItems(s) == KeyCount(s) + SignatureCount(s) + 3
HoldsMultiSig(s) ==
    /\ Len(s) >= 1
    /\ KeyCount(s) >= 0
    /\ Len(s) >= KeyCount(s) + 2
    /\ SignatureCount(s) >= 0
    /\ Len(s) >= MultiSigItems(s)
KeysOf(s) == [k \in 1..KeyCount(s) |-> s[Len(s) - KeyCount(s) - 1 + k]]
SignaturesOf(s) ==
    [j \in 1..SignatureCount(s) |-> s[Len(s) - MultiSigItems(s) + 1 + j]]

\* every signature verifies under a key of its own, the keys in the order of
\* the signatures
MatchInOrder(keys, signatures) ==
    \E f \in [1..Len(signatures) -> 1..Len(keys)] :
        /\ \A j \in 1..Len(signatures) : CheckSignature(keys[f[j]], signatures[j])
        /\ \A j \in 1..Len(signatures) : \A l \in 1..Len(signatures) :
              j < l => f[j] < f[l]

\* C28: CHECKMULTISIG removes the key count, the N keys, the signature
\* count, the M signatures and one more item, and pushes true exactly when
\* the signatures match keys in order, false otherwise.
C28_CheckMultiSigInOrder ==
    (AboutToExecute(OP_CHECKMULTISIG) /\ HoldsMultiSig(call.interpreter.mStack)) =>
        LET s == call.interpreter.mStack
            r == ProcessStep(call.interpreter)
        IN  /\ r.mValid
            /\ r.returned = "running"
            /\ r.mStack = Append(SubSeq(s, 1, Len(s) - MultiSigItems(s)),
                                 IF MatchInOrder(KeysOf(s), SignaturesOf(s))
                                 THEN <<1>> ELSE <<>>)


\* the places of a script from readOffset on at which process() reads an op
\* code: the bytes of a push are data
RECURSIVE OpCodePositions(_, _)
OpCodePositions(script, readOffset) ==
    IF readOffset >= Len(script) THEN {}
    ELSE LET opCode == script[readOffset + 1]
         IN  {readOffset + 1} \cup
             OpCodePositions(script,
                             readOffset + 1 +
                               (IF opCode \in 1..MAX_SINGLE_BYTE_PUSH_DATA_CODE
                                THEN opCode ELSE 0))

HasDisabledOpCode(script) ==
    \E p \in OpCodePositions(script, 0) : script[p] \in DisabledOpCodes

\* C29: a script that contains a disabled op code at an op code position is
\* Invalid, also when the op code lies in a branch that is not executed.
C29_DisabledOpCodeIsInvalid ==
    ( /\ EvaluationDone
      /\ HasDisabledOpCode(call.input) \/ HasDisabledOpCode(call.output) ) =>
        Outcome(call.interpreter) = "Invalid"

\* the evaluation is about to read a disabled op code at an op code position
ReadsDisabledOpCode ==
    /\ Evaluating
    /\ call.interpreter.readOffset + 1 \in OpCodePositions(call.interpreter.script, 0)
    /\ call.interpreter.script[call.interpreter.readOffset + 1] \in DisabledOpCodes

\* C29 (amended): a script is Invalid once the evaluation reads a disabled op
\* code at an op code position, also in a branch that is not executed; a
\* disabled op code behind the place where the evaluation returned is not
\* read.
C29_DisabledOpCodeReadIsInvalid ==
    ReadsDisabledOpCode =>
        /\ Outcome(ProcessStep(call.interpreter)) = "Invalid"
        /\ ProcessStep(call.interpreter).returned = "false"

C29_Witness == ReadsDisabledOpCode /\ ~IfStackTrue(call.interpreter)


(***************************************************************************)
(* The limits of the stacks (specification SpecLimits).                    *)
(***************************************************************************)
\* C30: an evaluation that ends Valid never held more than 1000 items on
\* the stack or more than 20 entries on the conditional stack, the stacks
\* after its last op code included.
C30_ValidWithinLimits ==
    (EvaluationDone /\ IsValid(call.interpreter)) =>
        /\ call.stackPeak <= 1000
        /\ call.ifStackPeak <= 20


(***************************************************************************)
(* Numbers of a script (specification SpecArithmetic).                     *)
(***************************************************************************)
\* C31: for every integer v from -(2^31 - 1) to 2^31 - 1, arithmeticRead of
\* the bytes arithmeticWrite(v) produces succeeds and returns v.
C31_ArithmeticRoundTrip ==
    ( /\ call.fn = "arithmetic"
      /\ call.done
      /\ call.value >= 0 - MaxScriptNumber
      /\ call.value <= MaxScriptNumber ) =>
        /\ call.read.ok
        /\ call.read.value = call.value

\* a negative number whose magnitude has its top bit set: a byte 0x80 is
\* prepended
C31_Witness ==
    /\ call.fn = "arithmetic"
    /\ call.done
    /\ call.value = 0 - 128
    /\ call.written = <<128, 128>>
    /\ call.read = [ok |-> TRUE, value |-> 0 - 128]


(***************************************************************************)
(* The amounts of a transaction (specification SpecTransaction).           *)
(***************************************************************************)
\* C32: for every transaction that is not a coinbase and that
\* Transaction::process accepts, the sum of the amounts of the outputs it
\* spends is at least the sum of the amounts of its own outputs.
C32_InputsCoverOutputs ==
    ( /\ call.fn = "transaction"
      /\ ~call.pCoinBase
      /\ call.result = "true" ) =>
        call.spentAmount >= call.outputAmount

\* an accepted transaction that spends three outputs, the sum of which is
\* beyond the width of the fee, and pays out all the fee holds
C32_Witness ==
    /\ call.fn = "transaction"
    /\ ~call.pCoinBase
    /\ call.result = "true"
    /\ call.unspent = {}
    /\ call.spentAmount >= AmountModulus
    /\ call.outputAmount > 0
    /\ call.mFee = 0


(***************************************************************************)
(* The hashes handed to a node (specification SpecHashes).                 *)
(***************************************************************************)
\* C33: getBlockHashes(hashes, start, count) returns only hashes of blocks
\* on the active chain, consecutive in height from the starting hash (from
\* height 0 for an empty starting hash), returns fewer than count when
\* fewer remain up to the tip, and never reads an entry beyond the tip.
C33_HashesOfActiveChain ==
    call.fn = "getBlockHashes" =>
        /\ call.result # "crashed"
        /\ call.beyond = 0
        /\ Len(call.hashes) <= call.count
        /\ \A k \in 1..Len(call.hashes) :
              /\ call.height + k <= Len(mBlockHashes)
              /\ call.hashes[k] = mBlockHashes[call.height + k]
        /\ ( /\ call.height >= 0
             /\ Len(call.hashes) < call.count ) =>
               call.height + Len(call.hashes) >= Len(mBlockHashes)

\* the part of the claim that holds: a request that ends at or before the
\* tip returns the hashes of the active chain from the starting hash on
C33_WithinChain ==
    ( /\ call.fn = "getBlockHashes"
      /\ call.height >= 0
      /\ call.height + call.count <= Len(mBlockHashes) ) =>
        /\ call.beyond = 0
        /\ call.hashes = SubSeq(mBlockHashes, call.height + 1,
                                call.height + call.count)

C33_WithinWitness ==
    /\ call.fn = "getBlockHashes"
    /\ call.start = "A1"
    /\ call.count = 2
    /\ call.hashes = <<"A1", "A2">>


(***************************************************************************)
(* The entry process() validates (specification SpecThreads).              *)
(***************************************************************************)
\* process() holds the pointer nextPending: from the read of the head of
\* the pending list to the removal of the head
HoldsNextPending == manager.pc \in {"validate", "committed", "added", "failed"}

\* C34: while process() validates the head of the pending list no
\* addPendingBlock() or checkBranches() that runs at the same time removes
\* or destroys that entry, and the entry process() removes after a
\* successful validation is the entry it validated: as long as process()
\* holds the entry, it is the head of the pending list.
C34_ValidatedEntryStaysHead ==
    HoldsNextPending =>
        /\ Len(mPendingBlocks) > 0
        /\ mPendingBlocks[1].hash = manager.hash


(***************************************************************************)
(* The blocks handed out to the nodes (specification SpecPeers).           *)
(***************************************************************************)
\* C35: a pending block of which only the header is held is handed out for
\* download to at most one node at a time: two nodes that call
\* getBlocksNeeded() and then markBlocksForNode() at the same time are
\* never both assigned the same block.
C35_OneNodePerBlock ==
    call.fn = "nodes" =>
        \A k \in 1..Len(mPendingBlocks) :
            ~mPendingBlocks[k].full =>
                \A n1, n2 \in Peers :
                    ( /\ mPendingBlocks[k].hash \in call.assigned[n1]
                      /\ mPendingBlocks[k].hash \in call.assigned[n2] ) => n1 = n2


(***************************************************************************)
(* The order of the locks (specification SpecLocks).                       *)
(***************************************************************************)
\* the threads of S wait for each other: each waits for a lock that a
\* thread of S holds
WaitForEachOther(S) == \A t \in S : Blockers(call, t) \cap S # {}

\* thread t asks for mPendingLock
AsksForPendingLock(t) ==
    /\ call.program[t] # <<>>
    /\ Head(call.program[t]).do \in {"readLock", "writeLock"}

\* C36: no interleaving of process(), addPendingBlock(), blockToAnnounce(),
\* getReverseBlockHashes() and the queries that only read ends with threads
\* that wait for each other for ever, and no thread asks for the pending
\* lock while it holds it.
C36_NoDeadlock ==
    call.fn = "locks" =>
        /\ \A S \in SUBSET LockThreads : S # {} => ~WaitForEachOther(S)
        /\ \A t \in LockThreads :
              AsksForPendingLock(t) => call.writer # t /\ t \notin call.readers


(***************************************************************************)
(* The work and the last hash of the main pending list (specification      *)
(* Spec).                                                                  *)
(***************************************************************************)
\* C37: pendingAccumulatedWork() always equals the accumulated work of the
\* active chain at its tip plus the work of every block of the main pending
\* list, also right after a branch was activated.
C37_PendingWorkIsChainPlusPending ==
    PendingAccumulatedWork(State) = AccumulatedWork(State) + SumWork(mPendingBlocks)

\* C38: lastPendingBlockHash() always returns the hash of the last entry of
\* the main pending list when the list is not empty, and the hash of the tip
\* when it is empty.
C38_LastPendingHashIsLastEntry ==
    LastPendingBlockHash(State) =
        IF Len(mPendingBlocks) > 0
        THEN mPendingBlocks[Len(mPendingBlocks)].hash
        ELSE mLastBlockHash


(***************************************************************************)
(* The op codes that move items of the stack (specification SpecStack).    *)
(***************************************************************************)
NextOpCode == call.interpreter.script[call.interpreter.readOffset + 1]

\* the number of items the op code about to be executed uses, the count on
\* the top included for OP_PICK and OP_ROLL
ItemsUsed ==
    CASE NextOpCode = OP_3DUP -> 3
      [] NextOpCode = OP_2SWAP -> 4
      [] NextOpCode \in {OP_PICK, OP_ROLL} ->
            IF call.interpreter.mStack = <<>> THEN 1
            ELSE IntegerOf(Top(call.interpreter)) + 2

TooFewItems ==
    /\ Evaluating
    /\ NextOpCode \in StackOpCodes
    /\ IfStackTrue(call.interpreter)
    /\ Len(call.interpreter.mStack) < ItemsUsed

\* C39: an op code that moves items of the stack makes the script Invalid,
\* and reads or moves nothing below the bottom of the stack, when the stack
\* holds fewer items than the op code uses: three for OP_3DUP, four for
\* OP_2SWAP, n + 1 items beneath the count n for OP_PICK and OP_ROLL.
C39_TooFewItemsIsInvalid ==
    TooFewItems =>
        \A beyond \in BeyondItems, crash \in BOOLEAN :
            LET i == StackStep(call.interpreter, beyond, crash)
            IN  /\ ~i.mValid
                /\ i.returned = "false"

\* the part that holds: with fewer items than the op code tests for, the
\* script is Invalid and no item is read
C39_BelowTheTestIsInvalid ==
    ( /\ Evaluating
      /\ NextOpCode \in StackOpCodes
      /\ IfStackTrue(call.interpreter)
      /\ Len(call.interpreter.mStack) < ItemsUsed - (IF NextOpCode = OP_2SWAP THEN 2 ELSE 1) ) =>
        \A beyond \in BeyondItems, crash \in BOOLEAN :
            LET i == StackStep(call.interpreter, beyond, crash)
            IN  /\ ~i.mValid
                /\ i.returned = "false"


(***************************************************************************)
(* Conditionals left open (specification SpecConditionals).                *)
(***************************************************************************)
RECURSIVE OpenConditionals(_, _, _)
\* the number of OP_IF and OP_NOTIF of the script from position k on that
\* no OP_ENDIF closes, after open of them were open before
OpenConditionals(script, k, open) ==
    IF k > Len(script) THEN open
    ELSE IF k \notin OpCodePositions(script, 0)
    THEN OpenConditionals(script, k + 1, open)
    ELSE IF script[k] \in {OP_IF, OP_NOTIF}
    THEN OpenConditionals(script, k + 1, open + 1)
    ELSE IF script[k] = OP_ENDIF /\ open > 0
    THEN OpenConditionals(script, k + 1, open - 1)
    ELSE OpenConditionals(script, k + 1, open)

\* an OP_IF or OP_NOTIF of the pair is closed by no OP_ENDIF
LeftOpen == OpenConditionals(call.output, 1, OpenConditionals(call.input, 1, 0)) > 0

\* C40: a pair of scripts in which an OP_IF or OP_NOTIF is never closed by
\* a matching OP_ENDIF is Invalid.
C40_OpenConditionalIsInvalid ==
    (EvaluationDone /\ LeftOpen) => Outcome(call.interpreter) = "Invalid"

====
